---- MODULE Spec2Model ----
(***************************************************************************)
(* jsonschemax: the Draft-07 schema compiler (compilation.py), its keyword *)
(* registry (keywords.py), JSON Pointer and URI helpers (utils.py) and the *)
(* meta-validator (meta_validation.py), as one state machine.              *)
(*                                                                         *)
(* JSON values are tagged records, so that values of different JSON types  *)
(* can be compared and collected:                                          *)
(*   [t |-> "null"]             None                                       *)
(*   [t |-> "bool",  b |-> B]   True / False                               *)
(*   [t |-> "int",   i |-> n]   a Python int                               *)
(*   [t |-> "float", h |-> k, f |-> F]   a Python float: of value k/2     *)
(*                              when F is "finite"; else F is "inf",      *)
(*                              "-inf" or "nan" (and k is not looked at)  *)
(*   [t |-> "str",   s |-> S]   a Python str                               *)
(*   [t |-> "arr",   a |-> Q]   a Python list (a sequence of JSON values)  *)
(*   [t |-> "obj", ks |-> K, o |-> F]   a Python dict: K its keys in       *)
(*                              insertion order, F the key -> value map    *)
(* A closure returned by the compiler is a record tagged by e (see         *)
(* Validation_call, which applies one to an instance).                     *)
(***************************************************************************)
EXTENDS Integers, Sequences, FiniteSets, TLC

(***************************************************************************)
(* Bounds of the model.                                                    *)
(***************************************************************************)
\* deepest nesting of the instances handed to a compiled validator
MaxDepth == 2
\* a compilation is run for at most 2^StepBits steps
StepBits == 10
\* a compilation whose call stack is this deep takes no further step
MaxStack == 40

(***************************************************************************)
(* JSON constructors.                                                      *)
(***************************************************************************)
JNull == [t |-> "null"]
JBool(b) == [t |-> "bool", b |-> b]
JInt(n) == [t |-> "int", i |-> n]
JFloat(k) == [t |-> "float", h |-> k, f |-> "finite"]
JNonFinite(F) == [t |-> "float", h |-> 0, f |-> F]
JStr(s) == [t |-> "str", s |-> s]
JArr(q) == [t |-> "arr", a |-> q]
Range(q) == {q[n] : n \in 1..Len(q)}
Index(q, x) == CHOOSE n \in 1..Len(q) : q[n] = x
\* a dict literal: keys ks (distinct), values vs, in insertion order
Obj(ks, vs) == [t |-> "obj", ks |-> ks, o |-> [k \in Range(ks) |-> vs[Index(ks, k)]]]
EmptyObj == Obj(<<>>, <<>>)
O1(k1, v1) == Obj(<<k1>>, <<v1>>)
O2(k1, v1, k2, v2) == Obj(<<k1, k2>>, <<v1, v2>>)
O3(k1, v1, k2, v2, k3, v3) == Obj(<<k1, k2, k3>>, <<v1, v2, v3>>)
\* key in dict / dict[key] / dict.get(key, default)
Has(d, k) == k \in DOMAIN d.o
Get(d, k, default) == IF Has(d, k) THEN d.o[k] ELSE default

(***************************************************************************)
(* types.py: the seven type predicates.                                    *)
(***************************************************************************)
\* isinstance(x, int) alone: a bool is an int, a float is not
is_integer_isinstance(x) == x.t \in {"int", "bool"}
is_integer(x) ==
    IF x.t = "bool" THEN FALSE
    ELSE IF x.t = "int" THEN TRUE
    ELSE IF x.t = "float" THEN x.f = "finite" /\ x.h % 2 = 0
    ELSE FALSE
is_null(x) == x.t = "null"
is_boolean(x) == x.t = "bool"
is_object(x) == x.t = "obj"
is_array(x) == x.t = "arr"
\* isinstance(x, (int, float)) alone: a bool is an int
is_number_isinstance(x) == x.t \in {"int", "float", "bool"}
is_number(x) == x.t \in {"int", "float", "bool"} /\ ~(x.t = "bool")
is_string(x) == x.t = "str"

\* utils.type_map
type_map(name, x) ==
    CASE name = "null" -> is_null(x)
      [] name = "boolean" -> is_boolean(x)
      [] name = "object" -> is_object(x)
      [] name = "array" -> is_array(x)
      [] name = "number" -> is_number(x)
      [] name = "string" -> is_string(x)
      [] name = "integer" -> is_integer(x)
TypeNames == {"null", "boolean", "object", "array", "number", "string", "integer"}

(***************************************************************************)
(* Python's == on JSON values: bool is a subclass of int, so True == 1 and *)
(* 1 == 1.0; lists compare elementwise, dicts by key set and values.       *)
(***************************************************************************)
IsNumeric(x) == x.t \in {"int", "float", "bool"}
\* the numeric value of an int, finite float or bool, in halves
NumH(x) == CASE x.t = "int" -> 2 * x.i
             [] x.t = "float" /\ x.f = "finite" -> x.h
             [] x.t = "bool" -> IF x.b THEN 2 ELSE 0

RECURSIVE PyEq(_, _)
PyEq(x, y) ==
    IF IsNumeric(x) /\ IsNumeric(y) THEN NumH(x) = NumH(y)
    ELSE IF x.t # y.t THEN FALSE
    ELSE CASE x.t = "null" -> TRUE
           [] x.t = "str" -> x.s = y.s
           [] x.t = "arr" -> /\ Len(x.a) = Len(y.a)
                             /\ \A n \in 1..Len(x.a) : PyEq(x.a[n], y.a[n])
           [] x.t = "obj" -> /\ DOMAIN x.o = DOMAIN y.o
                             /\ \A k \in DOMAIN x.o : PyEq(x.o[k], y.o[k])
\* type(a) == type(b)
PyType(x) == x.t

(***************************************************************************)
(* Text.  A Python str is a TLA+ string; the code that looks inside a      *)
(* string (urlsplit, urljoin, unquote, split, replace, isdigit) works on   *)
(* its sequence of characters.  Join makes the string of a character       *)
(* sequence, Chars is its inverse.                                         *)
(***************************************************************************)
\* (concatenations are computed by halves, which keeps the evaluation shallow)
RECURSIVE Join(_)
Join(cs) == IF cs = <<>> THEN ""
            ELSE IF Len(cs) = 1 THEN cs[1]
            ELSE Join(SubSeq(cs, 1, Len(cs) \div 2))
                 \o Join(SubSeq(cs, (Len(cs) \div 2) + 1, Len(cs)))
\* the concatenation of a sequence of sequences
RECURSIVE Flat(_)
Flat(ss) == IF ss = <<>> THEN <<>>
            ELSE IF Len(ss) = 1 THEN ss[1]
            ELSE Flat(SubSeq(ss, 1, Len(ss) \div 2))
                 \o Flat(SubSeq(ss, (Len(ss) \div 2) + 1, Len(ss)))

\* the characters of a text, in order
Chars(s) == [n \in 1..Len(s) |-> SubSeq(s, n, n)]

\* s.startswith(p), s.find(c) (0 when absent, else the 1-based index), s[n:]
StartsWith(cs, p) == Len(cs) >= Len(p) /\ SubSeq(cs, 1, Len(p)) = p
Find(cs, c) == IF \E n \in 1..Len(cs) : cs[n] = c
               THEN CHOOSE n \in 1..Len(cs) : cs[n] = c /\ \A m \in 1..(n - 1) : cs[m] # c
               ELSE 0
From(cs, n) == SubSeq(cs, n, Len(cs))
\* s.split(c): the pieces between the occurrences of c, the first of which is at n
RECURSIVE Split(_, _)
SplitAt(cs, c, n) ==
    IF n = 0 THEN <<cs>> ELSE <<SubSeq(cs, 1, n - 1)>> \o Split(From(cs, n + 1), c)
Split(cs, c) == SplitAt(cs, c, Find(cs, c))
\* sep.join(parts)
RECURSIVE JoinWith(_, _)
JoinWith(parts, c) ==
    CASE parts = <<>> -> <<>>
      [] Len(parts) = 1 -> parts[1]
      [] OTHER -> parts[1] \o <<c>> \o JoinWith(Tail(parts), c)
\* s.replace(old, new) for an old of two different characters (occurrences of
\* such an old cannot overlap) and a one-character new
Replace2(cs, old, new) ==
    Flat([n \in 1..Len(cs) |->
            CASE n < Len(cs) /\ SubSeq(cs, n, n + 1) = old -> <<new>>
              [] n > 1 /\ SubSeq(cs, n - 1, n) = old -> <<>>
              [] OTHER -> <<cs[n]>>])

Digits == {"0", "1", "2", "3", "4", "5", "6", "7", "8", "9"}
Letters == {"a", "b", "c", "d", "e", "f", "g", "h", "i", "j", "k", "l", "m", "n", "o",
            "p", "q", "r", "s", "t", "u", "v", "w", "x", "y", "z",
            "A", "D", "I", "N", "T"}
\* str.isdigit() holds of more characters than int() reads: of the ASCII
\* digits, which int() reads, and of others such as the superscript two
isdigit(cs) == cs # <<>> /\ \A n \in 1..Len(cs) : cs[n] \in Digits \cup {"²"}
\* int(str) raises ValueError
int_raises(cs) == \E n \in 1..Len(cs) : cs[n] \notin Digits
DigitVal(c) == CHOOSE d \in 0..9 : <<"0", "1", "2", "3", "4", "5", "6", "7", "8", "9">>[d + 1] = c
RECURSIVE int(_)
int(cs) == IF cs = <<>> THEN 0 ELSE 10 * int(SubSeq(cs, 1, Len(cs) - 1)) + DigitVal(cs[Len(cs)])

\* urllib.parse.unquote: %XX becomes the character it encodes
HexPairs == {<<"2", "5">>, <<"2", "F">>, <<"7", "E">>, <<"2", "3">>}
HexChar(p) == CASE p = <<"2", "5">> -> "%" [] p = <<"2", "F">> -> "/"
                [] p = <<"7", "E">> -> "~" [] p = <<"2", "3">> -> "#"
\* cs[n] is the "%" of an escape
EscapeAt(cs, n) ==
    /\ n >= 1 /\ n + 2 <= Len(cs) /\ cs[n] = "%"
    /\ SubSeq(cs, n + 1, n + 2) \in HexPairs
unquote(cs) ==
    Flat([n \in 1..Len(cs) |->
            CASE EscapeAt(cs, n) -> <<HexChar(SubSeq(cs, n + 1, n + 2))>>
              [] EscapeAt(cs, n - 1) \/ EscapeAt(cs, n - 2) -> <<>>
              [] OTHER -> <<cs[n]>>])

(***************************************************************************)
(* urllib.parse, as far as the compiler uses it.  A split URL is the       *)
(* record of its five parts, each a character sequence.  Schemes are       *)
(* lower case and no text holds ";" (no params part).                      *)
(***************************************************************************)
SchemeChars == Letters \cup Digits \cup {"+", "-", "."}
uses_relative == {<<>>, <<"h", "t", "t", "p">>, <<"h", "t", "t", "p", "s">>,
                  <<"f", "t", "p">>, <<"f", "i", "l", "e">>}
uses_netloc == uses_relative

\* the least element of a set of numbers
Least(ns) == CHOOSE m \in ns : \A k \in ns : m <= k
\* the index of the first of "/", "?", "#" in cs at or after n, Len(cs)+1 if none
NetlocEnd(cs, n) ==
    Least({m \in n..Len(cs) : cs[m] \in {"/", "?", "#"}} \cup {Len(cs) + 1})

\* urlsplit(url, scheme=default), step by step: the scheme ends at i, the
\* netloc at e, the fragment starts at f and the query at q (0: there is none)
SplitQuery(scheme, netloc, url, fragment, q) ==
    [scheme |-> scheme, netloc |-> netloc,
     path |-> IF q > 0 THEN SubSeq(url, 1, q - 1) ELSE url,
     query |-> IF q > 0 THEN From(url, q + 1) ELSE <<>>,
     fragment |-> fragment]
SplitFragment(scheme, netloc, url, f) ==
    SplitQuery(scheme, netloc, IF f > 0 THEN SubSeq(url, 1, f - 1) ELSE url,
               IF f > 0 THEN From(url, f + 1) ELSE <<>>,
               Find(IF f > 0 THEN SubSeq(url, 1, f - 1) ELSE url, "?"))
SplitNetloc(scheme, url, e) ==
    SplitFragment(scheme,
                  IF StartsWith(url, <<"/", "/">>) THEN SubSeq(url, 3, e - 1) ELSE <<>>,
                  IF StartsWith(url, <<"/", "/">>) THEN From(url, e) ELSE url,
                  Find(IF StartsWith(url, <<"/", "/">>) THEN From(url, e) ELSE url, "#"))
SplitScheme(scheme, url) == SplitNetloc(scheme, url, NetlocEnd(url, 3))
HasScheme(url, i) ==
    i > 1 /\ url[1] \in Letters /\ \A n \in 1..(i - 1) : url[n] \in SchemeChars
SchemeAt(url, default, i) ==
    SplitScheme(IF HasScheme(url, i) THEN SubSeq(url, 1, i - 1) ELSE default,
                IF HasScheme(url, i) THEN From(url, i + 1) ELSE url)
urlsplit(url, default) == SchemeAt(url, default, Find(url, ":"))

\* urlunsplit((scheme, netloc, path, query, fragment)), step by step
WithFragment(p, url) == IF p.fragment # <<>> THEN url \o <<"#">> \o p.fragment ELSE url
WithQuery(p, url) ==
    WithFragment(p, IF p.query # <<>> THEN url \o <<"?">> \o p.query ELSE url)
WithScheme(p, url) ==
    WithQuery(p, IF p.scheme # <<>> THEN p.scheme \o <<":">> \o url ELSE url)
urlunsplit(p) ==
    WithScheme(p, IF p.netloc # <<>>
                     \/ (p.scheme # <<>> /\ p.scheme \in uses_netloc
                         /\ ~StartsWith(p.path, <<"/", "/">>))
                  THEN <<"/", "/">> \o p.netloc
                       \o (IF p.path # <<>> /\ p.path[1] # "/" THEN <<"/">> ELSE <<>>)
                       \o p.path
                  ELSE p.path)

\* segments[1:-1] = filter(None, segments[1:-1])
DropEmptyInner(segs) ==
    IF Len(segs) <= 2 THEN segs
    ELSE <<segs[1]>> \o SelectSeq(SubSeq(segs, 2, Len(segs) - 1), LAMBDA g : g # <<>>)
         \o <<segs[Len(segs)]>>
\* the loop of urljoin over the segments: ".." pops, "." is skipped
RECURSIVE ResolveDots(_, _)
ResolveDots(segs, acc) ==
    CASE segs = <<>> -> acc
      [] segs # <<>> /\ segs[1] = <<".", ".">> ->
            ResolveDots(Tail(segs), IF acc = <<>> THEN acc ELSE SubSeq(acc, 1, Len(acc) - 1))
      [] segs # <<>> /\ segs[1] = <<".">> -> ResolveDots(Tail(segs), acc)
      [] OTHER -> ResolveDots(Tail(segs), Append(acc, segs[1]))

\* urljoin(base, url), step by step
\* base_parts: bpath.split('/') without its last part unless that is empty
BaseParts(parts) ==
    IF parts[Len(parts)] # <<>> THEN SubSeq(parts, 1, Len(parts) - 1) ELSE parts
Segments(bpath, path) ==
    IF StartsWith(path, <<"/">>) THEN Split(path, "/")
    ELSE DropEmptyInner(BaseParts(Split(bpath, "/")) \o Split(path, "/"))
\* '/'.join(resolved_path) or '/'
ResolvedPath(segments, resolved_path) ==
    IF JoinWith(IF segments[Len(segments)] \in {<<".">>, <<".", ".">>}
                THEN Append(resolved_path, <<>>) ELSE resolved_path, "/") = <<>>
    THEN <<"/">>
    ELSE JoinWith(IF segments[Len(segments)] \in {<<".">>, <<".", ".">>}
                  THEN Append(resolved_path, <<>>) ELSE resolved_path, "/")
JoinedPath(segments) == ResolvedPath(segments, ResolveDots(segments, <<>>))
\* the parts of the joined URL; b and r are the split base and the split url
JoinedParts(b, r) ==
    CASE r.scheme \in uses_netloc /\ r.netloc # <<>> -> r
      [] ~(r.scheme \in uses_netloc /\ r.netloc # <<>>) /\ r.path = <<>> ->
            [scheme |-> r.scheme, netloc |-> b.netloc, path |-> b.path,
             query |-> IF r.query = <<>> THEN b.query ELSE r.query,
             fragment |-> r.fragment]
      [] OTHER ->
            [scheme |-> r.scheme, netloc |-> b.netloc,
             path |-> JoinedPath(Segments(b.path, r.path)),
             query |-> r.query, fragment |-> r.fragment]
JoinSplit(url, b, r) ==
    IF r.scheme # b.scheme \/ r.scheme \notin uses_relative THEN url
    ELSE urlunsplit(JoinedParts(b, r))
JoinBase(url, b) == JoinSplit(url, b, urlsplit(url, b.scheme))
urljoin(base, url) ==
    CASE base = <<>> -> url
      [] base # <<>> /\ url = <<>> -> base
      [] OTHER -> JoinBase(url, urlsplit(base, <<>>))

\* utils.split_uri: (absolute-URI, fragment)
SplitUriParts(p) == <<urlunsplit([p EXCEPT !.fragment = <<>>]), p.fragment>>
split_uri(uri) == SplitUriParts(urlsplit(uri, <<>>))

\* uri.is_abs_uri
IsAbsParts(p) == p.scheme # <<>> /\ p.fragment = <<>>
is_abs_uri(string) == IsAbsParts(urlsplit(string, <<>>))

(***************************************************************************)
(* utils.JsonPointer                                                       *)
(***************************************************************************)
\* token.replace("~0", "~").replace("~1", "/")
unescape_token_tilde_first(tok) ==
    Replace2(Replace2(tok, <<"~", "0">>, "~"), <<"~", "1">>, "/")
\* token.replace("~1", "/").replace("~0", "~")
unescape_token(tok) == Replace2(Replace2(tok, <<"~", "1">>, "/"), <<"~", "0">>, "~")

\* if json_pointer.startswith(c): json_pointer = json_pointer[1:]
StripLeading(cs, c) == IF StartsWith(cs, <<c>>) THEN Tail(cs) ELSE cs
\* the tokens between the "/"s, each unescaped
Tokens(raw) == [n \in 1..Len(raw) |-> unescape_token(raw[n])]
\* JsonPointer.parse_json_pointer: the tokens, as character sequences
parse_json_pointer(json_pointer) ==
    IF json_pointer \in {<<>>, <<"#">>} THEN <<>>
    ELSE Tokens(Split(StripLeading(StripLeading(unquote(json_pointer), "#"), "/"), "/"))

\* JsonPointer.evaluate_tokens: <<is_successful, evaluation_result, exception>>,
\* where exception is "" when the function returns and is what it raises
\* otherwise
RECURSIVE evaluate_tokens(_, _)
evaluate_tokens(current, tokens) ==
    CASE tokens = <<>> -> <<TRUE, current, "">>
      [] tokens # <<>> /\ current.t = "obj" /\ Has(current, Join(tokens[1])) ->
            evaluate_tokens(current.o[Join(tokens[1])], Tail(tokens))
      [] tokens # <<>> /\ current.t = "arr" /\ isdigit(tokens[1])
         /\ int_raises(tokens[1]) -> <<FALSE, JNull, "ValueError">>
      [] tokens # <<>> /\ current.t = "arr" /\ isdigit(tokens[1])
         /\ ~int_raises(tokens[1]) /\ int(tokens[1]) < Len(current.a) ->
            evaluate_tokens(current.a[int(tokens[1]) + 1], Tail(tokens))
      [] OTHER -> <<FALSE, JNull, "">>

(***************************************************************************)
(* Compilation.  The compiler's mutable context is the record st:          *)
(*   schema_by_uri      global_schema_map, absolute URI -> schema          *)
(*   validator_by_uri   global_validation_map, reference URI -> Validation *)
(*   trace              the steps taken so far, in order (history)         *)
(* A Validation is [schema, root_id, callback]; a fresh one has no         *)
(* callback yet.                                                           *)
(*                                                                         *)
(* init, evaluate and the keyword functions call each other recursively.   *)
(* The model runs them with an explicit call stack: m = [now, stack, st],  *)
(* where now is what happens next,                                         *)
(*   [op |-> "init", ...], [op |-> "evaluate", ...], [op |-> "keyword", ..]*)
(*                      a call that is about to start, with its arguments  *)
(*   [op |-> "return", cb |-> c]   the call on top has returned closure c  *)
(*   [op |-> "next"]    the loop of the frame on top goes on               *)
(*   [op |-> "raise", err |-> e]   exception e has been raised; nothing    *)
(*                      in this code catches one, so it ends the compile   *)
(* and stack holds one frame per call that waits for a callee, tagged by   *)
(* f, with the local variables it needs when the callee returns.  Each     *)
(* operator below that takes m is the part of its function up to the next  *)
(* call; it returns the m that this part leaves.                           *)
(***************************************************************************)
Unset == [e |-> "unset"]
TrueCb == [e |-> "true"]
FreshValidation == [schema |-> JNull, root_id |-> "", callback |-> Unset]
Ev(name, arg) == [ev |-> name, arg |-> arg]
Log(st, name, arg) == [st EXCEPT !.trace = Append(@, Ev(name, arg))]
Logged(m, name, arg) == [m EXCEPT !.st = Log(@, name, arg)]

Return(m, cb) == [m EXCEPT !.now = [op |-> "return", cb |-> cb], !.ended = (m.stack = <<>>)]
Raise(m, e) == [m EXCEPT !.now = [op |-> "raise", err |-> e], !.ended = TRUE]
Continue(m) == [m EXCEPT !.now = [op |-> "next"]]
Top(m) == m.stack[Len(m.stack)]
Push(m, frame) == [m EXCEPT !.stack = Append(@, frame)]
Pop(m) == [m EXCEPT !.stack = SubSeq(@, 1, Len(@) - 1)]
SetTop(m, frame) == [m EXCEPT !.stack[Len(m.stack)] = frame]
\* validation.init(schema=..., keyword_map=..., check_schema=..., ref_list=...)
Call_init(m, schema, keyword_map, check_schema, ref_list) ==
    [m EXCEPT !.now = [op |-> "init", schema |-> schema, keyword_map |-> keyword_map,
                       check_schema |-> check_schema, ref_list |-> ref_list]]
\* validation.evaluate(schema, base_uri, ref_list), validation being sf:
\* [root_schema, keyword_map, check_schema]
Call_evaluate(m, sf, schema, base_uri, ref_list) ==
    [m EXCEPT !.now = [op |-> "evaluate", sf |-> sf, schema |-> schema,
                       base_uri |-> base_uri, ref_list |-> ref_list]]
\* keyword_map[name](value=..., schema=..., uri=..., validation=..., ref_list=...)
Call_keyword(m, f, value, schema, uri, sf, ref_list) ==
    [m EXCEPT !.now = [op |-> "keyword", f |-> f, value |-> value, schema |-> schema,
                       uri |-> uri, sf |-> sf, ref_list |-> ref_list]]

\* bool(x) of a JSON value
Truthy(x) == CASE x.t = "null" -> FALSE
               [] x.t = "bool" -> x.b
               [] x.t = "int" -> x.i # 0
               [] x.t = "float" -> x.f # "finite" \/ x.h # 0
               [] x.t = "str" -> x.s # ""
               [] x.t = "arr" -> x.a # <<>>
               [] x.t = "obj" -> x.ks # <<>>

\* keywords.draft7_keyword_map: keyword name -> keyword function
draft7_keyword_map ==
    [k \in {"definitions", "type", "enum", "const", "multipleOf", "maximum",
            "exclusiveMaximum", "minimum", "exclusiveMinimum", "maxLength", "minLength",
            "pattern", "items", "additionalItems", "maxItems", "minItems", "uniqueItems",
            "contains", "maxProperties", "minProperties", "required", "properties",
            "patternProperties", "additionalProperties", "dependencies", "propertyNames",
            "if", "then", "else", "allOf", "anyOf", "oneOf", "not"} |->
        CASE k = "definitions" -> "_definitions"
          [] k = "type" -> "_type"
          [] k = "enum" -> "_enum"
          [] k = "const" -> "_const"
          [] k = "multipleOf" -> "_multiple_of"
          [] k = "maximum" -> "_maximum"
          [] k = "exclusiveMaximum" -> "_exclusive_maximum"
          [] k = "minimum" -> "_minimum"
          [] k = "exclusiveMinimum" -> "_exclusive_minimum"
          [] k = "maxLength" -> "_max_length"
          [] k = "minLength" -> "_min_length"
          [] k = "pattern" -> "_pattern"
          [] k = "items" -> "_items"
          [] k = "additionalItems" -> "_additional_items"
          [] k = "maxItems" -> "_max_items"
          [] k = "minItems" -> "_min_items"
          [] k = "uniqueItems" -> "_unique_items"
          [] k = "contains" -> "_contains"
          [] k = "maxProperties" -> "_max_properties"
          [] k = "minProperties" -> "_min_properties"
          [] k = "required" -> "_required"
          [] k = "properties" -> "_properties"
          [] k = "patternProperties" -> "_pattern_properties"
          [] k = "additionalProperties" -> "_additional_properties"
          [] k = "dependencies" -> "_dependencies"
          [] k = "propertyNames" -> "_property_names"
          [] k = "if" -> "_if"
          [] k = "then" -> "_then"
          [] k = "else" -> "_else"
          [] k = "allOf" -> "_all_of"
          [] k = "anyOf" -> "_any_of"
          [] k = "oneOf" -> "_one_of"
          [] k = "not" -> "_not"]

\* the type_checkers each keyword function is decorated with (@kw_deco(...))
type_checkers(f) ==
    IF f \in {"_multiple_of", "_maximum", "_exclusive_maximum", "_minimum",
              "_exclusive_minimum"} THEN <<"number">>
    ELSE IF f \in {"_max_length", "_min_length", "_pattern"} THEN <<"string">>
    ELSE IF f \in {"_items", "_additional_items", "_max_items", "_min_items",
                   "_unique_items", "_contains"} THEN <<"array">>
    ELSE IF f \in {"_max_properties", "_min_properties", "_required", "_properties",
                   "_pattern_properties", "_additional_properties", "_dependencies",
                   "_property_names"} THEN <<"object">>
    ELSE <<>>

(***************************************************************************)
(* keywords.py: the keyword functions.  Each takes the keyword's value,    *)
(* the enclosing schema, the current URI and the Validation compiling it   *)
(* (sf); kw_deco only calls one with an empty ref_list.  The closure a     *)
(* keyword function returns is a record holding what the Python closure    *)
(* captures.                                                               *)
(***************************************************************************)

\* what "for item in value" iterates over: list items, dict keys, str characters
Iterable(value) == value.t \in {"arr", "obj", "str"}
Items(value) ==
    CASE value.t = "arr" -> value.a
      [] value.t = "obj" -> [n \in 1..Len(value.ks) |-> JStr(value.ks[n])]
      [] value.t = "str" -> [n \in 1..Len(value.s) |-> JStr(SubSeq(value.s, n, n))]
\* dict.values() in insertion order
Values(d) == [n \in 1..Len(d.ks) |-> d.o[d.ks[n]]]

\* return <closure>(validation.evaluate(value, uri, ref_list)): the frame "one"
\* keeps the closure, whose f the callback returned will be
OneSub(m, cb, sf, value, uri) ==
    Call_evaluate(Push(m, [f |-> "one", cb |-> cb]), sf, value, uri, <<>>)
\* for subschema in subs: callbacks.append(validation.evaluate(subschema, ...)):
\* the frame "each" keeps the closure, whose fs the callbacks collected will be,
\* and the sub-schemas still to do
ManySubs(m, cb, sf, subs, uri) ==
    Continue(Push(m, [f |-> "each", cb |-> cb, sf |-> sf, subs |-> subs, uri |-> uri]))
\* what happens when the callee returns to a frame "one", and to a frame "each";
\* one turn of the loop of a frame "each" (fr is the frame)
OneSubReturn(m, fr) == Return(Pop(m), [fr.cb EXCEPT !.f = m.now.cb])
ManySubsAppend(m, fr) == Continue(SetTop(m, [fr EXCEPT !.cb.fs = Append(@, m.now.cb)]))
ManySubsLoop(m, fr) ==
    IF fr.subs = <<>> THEN Return(Pop(m), fr.cb)
    ELSE Call_evaluate(SetTop(m, [fr EXCEPT !.subs = Tail(@)]),
                       fr.sf, fr.subs[1], fr.uri, <<>>)

_definitions(m, value, schema, uri, sf) == Return(m, TrueCb)

_type(m, value, schema, uri, sf) ==
    IF value.t \notin {"str", "arr"} THEN Raise(m, "AssertionError")
    ELSE Return(m, [e |-> "type", value |-> value])

_enum(m, value, schema, uri, sf) ==
    IF ~(value.t = "arr" /\ Len(value.a) >= 1) THEN Raise(m, "AssertionError")
    ELSE Return(m, [e |-> "enum", value |-> value])

_const(m, value, schema, uri, sf) == Return(m, [e |-> "const", value |-> value])

_multiple_of(m, value, schema, uri, sf) == Return(m, [e |-> "multipleOf", value |-> value])
_maximum(m, value, schema, uri, sf) == Return(m, [e |-> "maximum", value |-> value])
_exclusive_maximum(m, value, schema, uri, sf) ==
    Return(m, [e |-> "exclusiveMaximum", value |-> value])
_minimum(m, value, schema, uri, sf) == Return(m, [e |-> "minimum", value |-> value])
_exclusive_minimum(m, value, schema, uri, sf) ==
    Return(m, [e |-> "exclusiveMinimum", value |-> value])
_max_length(m, value, schema, uri, sf) == Return(m, [e |-> "maxLength", value |-> value])
_min_length(m, value, schema, uri, sf) == Return(m, [e |-> "minLength", value |-> value])
_pattern(m, value, schema, uri, sf) == Return(m, [e |-> "pattern", value |-> value])

_items(m, value, schema, uri, sf) ==
    IF value.t = "arr"
    THEN ManySubs(m, [e |-> "items_list", fs |-> <<>>], sf, value.a, uri)
    ELSE OneSub(m, [e |-> "items", f |-> Unset], sf, value, uri)

_additional_items(m, value, schema, uri, sf) ==
    OneSub(m, [e |-> "additionalItems", f |-> Unset, schema |-> schema], sf, value, uri)

_max_items(m, value, schema, uri, sf) == Return(m, [e |-> "maxItems", value |-> value])
_min_items(m, value, schema, uri, sf) == Return(m, [e |-> "minItems", value |-> value])
\* the callback does not read value
_unique_items(m, value, schema, uri, sf) == Return(m, [e |-> "uniqueItems"])
_contains(m, value, schema, uri, sf) ==
    OneSub(m, [e |-> "contains", f |-> Unset], sf, value, uri)

_max_properties(m, value, schema, uri, sf) ==
    Return(m, [e |-> "maxProperties", value |-> value])
_min_properties(m, value, schema, uri, sf) ==
    Return(m, [e |-> "minProperties", value |-> value])
_required(m, value, schema, uri, sf) == Return(m, [e |-> "required", value |-> value])

\* inner_callbacks[key] = validation.evaluate(subschema, uri, ref_list), in key order
_properties(m, value, schema, uri, sf) ==
    IF value.t # "obj" THEN Raise(m, "AttributeError")
    ELSE ManySubs(m, [e |-> "properties", ks |-> value.ks, fs |-> <<>>],
                  sf, Values(value), uri)

_pattern_properties(m, value, schema, uri, sf) ==
    IF value.t # "obj" THEN Raise(m, "AttributeError")
    ELSE ManySubs(m, [e |-> "patternProperties", ks |-> value.ks, fs |-> <<>>],
                  sf, Values(value), uri)

_additional_properties(m, value, schema, uri, sf) ==
    OneSub(m, [e |-> "additionalProperties", f |-> Unset, schema |-> schema],
           sf, value, uri)

(***************************************************************************)
(* _dependencies.  The loop defines one inner_callback per entry, of the   *)
(* array form or of the schema form; the closures read dependency_key,     *)
(* dependency_value and dependency_callback, which are variables of the    *)
(* enclosing function, when they are called, i.e. after the loop has       *)
(* ended.  The frame "dependencies" keeps the entries still to do, the     *)
(* form of each closure defined so far (kinds) and the current value of    *)
(* dependency_callback (last).                                             *)
(***************************************************************************)
_dependencies(m, value, schema, uri, sf) ==
    IF value.t # "obj" THEN Raise(m, "AssertionError")
    ELSE Continue(Push(m, [f |-> "dependencies", value |-> value, sf |-> sf, uri |-> uri,
                           entries |-> Values(value), kinds |-> <<>>, last |-> Unset]))
\* one turn of the loop; fr is the frame
_dependencies_loop(m, fr) ==
    CASE fr.entries = <<>> ->
            Return(Pop(m),
                   [e |-> "dependencies", kinds |-> fr.kinds,
                    dependency_key |-> IF fr.value.ks = <<>> THEN ""
                                       ELSE fr.value.ks[Len(fr.value.ks)],
                    dependency_value |-> IF fr.value.ks = <<>> THEN JNull
                                         ELSE fr.value.o[fr.value.ks[Len(fr.value.ks)]],
                    dependency_callback |-> fr.last])
      [] fr.entries # <<>> /\ fr.entries[1].t = "arr"
         /\ (\E n \in 1..Len(fr.entries[1].a) : fr.entries[1].a[n].t # "str") ->
            Raise(m, "AssertionError")
      [] fr.entries # <<>> /\ fr.entries[1].t = "arr"
         /\ (\A n \in 1..Len(fr.entries[1].a) : fr.entries[1].a[n].t = "str") ->
            SetTop(m, [fr EXCEPT !.entries = Tail(@), !.kinds = Append(@, "array")])
      [] fr.entries # <<>> /\ fr.entries[1].t \notin {"arr", "obj", "bool"} ->
            Raise(m, "AssertionError")
      [] OTHER ->
            Call_evaluate(SetTop(m, [fr EXCEPT !.entries = Tail(@)]),
                          fr.sf, fr.entries[1], fr.uri, <<>>)
\* dependency_callback = <what validation.evaluate has returned>
_dependencies_callback(m, fr) ==
    Continue(SetTop(m, [fr EXCEPT !.kinds = Append(@, "schema"), !.last = m.now.cb]))

_property_names(m, value, schema, uri, sf) ==
    OneSub(m, [e |-> "propertyNames", f |-> Unset], sf, value, uri)

\* if_callback, then_callback and else_callback are evaluated in this order; the
\* frames "if", "then" and "else" keep what is needed after each
_if(m, value, schema, uri, sf) ==
    Call_evaluate(Push(m, [f |-> "if", schema |-> schema, uri |-> uri, sf |-> sf]),
                  sf, value, uri, <<>>)
_if_then(m, fr) ==
    Call_evaluate(SetTop(m, [f |-> "then", schema |-> fr.schema, uri |-> fr.uri,
                             sf |-> fr.sf, if_callback |-> m.now.cb]),
                  fr.sf, Get(fr.schema, "then", JBool(TRUE)), fr.uri, <<>>)
_if_else(m, fr) ==
    Call_evaluate(SetTop(m, [f |-> "else", if_callback |-> fr.if_callback,
                             then_callback |-> m.now.cb]),
                  fr.sf, Get(fr.schema, "else", JBool(TRUE)), fr.uri, <<>>)
_if_callback(m, fr) ==
    Return(Pop(m), [e |-> "if", if_callback |-> fr.if_callback,
                    then_callback |-> fr.then_callback, else_callback |-> m.now.cb])
_then(m, value, schema, uri, sf) == Return(m, TrueCb)
_else(m, value, schema, uri, sf) == Return(m, TrueCb)

_all_of(m, value, schema, uri, sf) ==
    IF ~Iterable(value) THEN Raise(m, "TypeError")
    ELSE ManySubs(m, [e |-> "allOf", fs |-> <<>>], sf, Items(value), uri)
_any_of(m, value, schema, uri, sf) ==
    IF ~Iterable(value) THEN Raise(m, "TypeError")
    ELSE ManySubs(m, [e |-> "anyOf", fs |-> <<>>], sf, Items(value), uri)
_one_of(m, value, schema, uri, sf) ==
    IF ~Iterable(value) THEN Raise(m, "TypeError")
    ELSE ManySubs(m, [e |-> "oneOf", fs |-> <<>>], sf, Items(value), uri)

_not(m, value, schema, uri, sf) ==
    IF value.t \notin {"bool", "obj"} THEN Raise(m, "AssertionError")
    ELSE OneSub(m, [e |-> "not", f |-> Unset], sf, value, uri)

\* the function a registry entry names, applied
keyword_func(m, f, value, schema, uri, sf) ==
    CASE f = "_definitions" -> _definitions(m, value, schema, uri, sf)
      [] f = "_type" -> _type(m, value, schema, uri, sf)
      [] f = "_enum" -> _enum(m, value, schema, uri, sf)
      [] f = "_const" -> _const(m, value, schema, uri, sf)
      [] f = "_multiple_of" -> _multiple_of(m, value, schema, uri, sf)
      [] f = "_maximum" -> _maximum(m, value, schema, uri, sf)
      [] f = "_exclusive_maximum" -> _exclusive_maximum(m, value, schema, uri, sf)
      [] f = "_minimum" -> _minimum(m, value, schema, uri, sf)
      [] f = "_exclusive_minimum" -> _exclusive_minimum(m, value, schema, uri, sf)
      [] f = "_max_length" -> _max_length(m, value, schema, uri, sf)
      [] f = "_min_length" -> _min_length(m, value, schema, uri, sf)
      [] f = "_pattern" -> _pattern(m, value, schema, uri, sf)
      [] f = "_items" -> _items(m, value, schema, uri, sf)
      [] f = "_additional_items" -> _additional_items(m, value, schema, uri, sf)
      [] f = "_max_items" -> _max_items(m, value, schema, uri, sf)
      [] f = "_min_items" -> _min_items(m, value, schema, uri, sf)
      [] f = "_unique_items" -> _unique_items(m, value, schema, uri, sf)
      [] f = "_contains" -> _contains(m, value, schema, uri, sf)
      [] f = "_max_properties" -> _max_properties(m, value, schema, uri, sf)
      [] f = "_min_properties" -> _min_properties(m, value, schema, uri, sf)
      [] f = "_required" -> _required(m, value, schema, uri, sf)
      [] f = "_properties" -> _properties(m, value, schema, uri, sf)
      [] f = "_pattern_properties" -> _pattern_properties(m, value, schema, uri, sf)
      [] f = "_additional_properties" -> _additional_properties(m, value, schema, uri, sf)
      [] f = "_dependencies" -> _dependencies(m, value, schema, uri, sf)
      [] f = "_property_names" -> _property_names(m, value, schema, uri, sf)
      [] f = "_if" -> _if(m, value, schema, uri, sf)
      [] f = "_then" -> _then(m, value, schema, uri, sf)
      [] f = "_else" -> _else(m, value, schema, uri, sf)
      [] f = "_all_of" -> _all_of(m, value, schema, uri, sf)
      [] f = "_any_of" -> _any_of(m, value, schema, uri, sf)
      [] f = "_one_of" -> _one_of(m, value, schema, uri, sf)
      [] f = "_not" -> _not(m, value, schema, uri, sf)

(***************************************************************************)
(* Calling a closure on an instance.  The result is "true", "false" or the *)
(* name of the exception raised.  vmap is validator_by_uri; active holds   *)
(* the <<reference URI, instance>> pairs of the Validation calls that are  *)
(* on the call stack: a Validation called again on the instance it is      *)
(* already working on recurses until Python raises RecursionError.         *)
(***************************************************************************)
B(b) == IF b THEN "true" ELSE "false"
IsErr(v) == v \notin {"true", "false"}
\* the first exception among the results rs
FirstErr(rs) ==
    rs[CHOOSE n \in 1..Len(rs) : IsErr(rs[n]) /\ \A m \in 1..(n - 1) : ~IsErr(rs[m])]
\* all([...]) / any([...]) of a list built by a comprehension: every element is
\* computed first, so the first exception wins
AllOf(rs) == IF rs = <<>> THEN "true"
             ELSE IF \E n \in 1..Len(rs) : IsErr(rs[n]) THEN FirstErr(rs)
             ELSE B(\A n \in 1..Len(rs) : rs[n] = "true")
AnyOf(rs) == IF rs = <<>> THEN "false"
             ELSE IF \E n \in 1..Len(rs) : IsErr(rs[n]) THEN FirstErr(rs)
             ELSE B(\E n \in 1..Len(rs) : rs[n] = "true")
\* a loop that returns stop at the first element whose result is stop, else other;
\* an exception ends it
Ends(rs, n, stop) == rs[n] = stop \/ IsErr(rs[n])
UntilFirst(rs, stop, other) ==
    IF rs = <<>> THEN other
    ELSE IF \E n \in 1..Len(rs) : Ends(rs, n, stop)
    THEN rs[CHOOSE n \in 1..Len(rs) :
                Ends(rs, n, stop) /\ \A m \in 1..(n - 1) : ~Ends(rs, m, stop)]
    ELSE other

\* re.search(pattern, string) for a pattern of literal characters, optionally
\* anchored by a leading "^" and a trailing "$"
ReMatch(lit, str, atStart, atEnd) ==
    \E n \in 1..(Len(str) - Len(lit) + 1) :
        /\ SubSeq(str, n, n + Len(lit) - 1) = lit
        /\ atStart => n = 1
        /\ atEnd => n + Len(lit) - 1 = Len(str)
ReEnd(p, str, atStart) ==
    ReMatch(IF p # <<>> /\ p[Len(p)] = "$" THEN SubSeq(p, 1, Len(p) - 1) ELSE p,
            str, atStart, p # <<>> /\ p[Len(p)] = "$")
ReStart(p, str) ==
    ReEnd(IF StartsWith(p, <<"^">>) THEN Tail(p) ELSE p, str, StartsWith(p, <<"^">>))
re_search(pattern, string) == ReStart(Chars(pattern), Chars(string))

\* len(instance) <= value and the like: value must be a number
Compare(op, n, value) ==
    IF ~IsNumeric(value) THEN "TypeError"
    ELSE CASE op = "<=" -> B(n <= NumH(value))
           [] op = "<" -> B(n < NumH(value))
           [] op = ">=" -> B(n >= NumH(value))
           [] op = ">" -> B(n > NumH(value))
Abs(n) == IF n < 0 THEN -n ELSE n
Min(m, n) == IF m < n THEN m ELSE n

\* "key in instance" for a dict instance and any JSON key
KeyIn(key, instance) ==
    IF key.t \in {"arr", "obj"} THEN "TypeError"
    ELSE B(key.t = "str" /\ Has(instance, key.s))
\* for key in keys: if key not in instance: return False
KeysIn(keys, instance) ==
    UntilFirst([m \in 1..Len(keys) |-> KeyIn(keys[m], instance)], "false", "true")
\* itertools.combinations(range(n), 2)
Pairs(n) == {p \in (1..n) \X (1..n) : p[1] < p[2]}
\* type_map[name](instance) for one entry of a "type" list
TypeOf(v, x) ==
    CASE v.t \in {"arr", "obj"} -> "TypeError"
      [] v.t = "str" /\ v.s \in TypeNames -> B(type_map(v.s, x))
      [] OTHER -> "KeyError"
\* if f(instance) is False: return False, else True; r is what f returned or raised
UnlessFalse(r) == IF r = "false" \/ IsErr(r) THEN r ELSE "true"
\* oneOf: exactly one of the results is True
ExactlyOne(rs) ==
    IF rs = <<>> THEN "false"
    ELSE IF \E n \in 1..Len(rs) : IsErr(rs[n]) THEN FirstErr(rs)
    ELSE B(Cardinality({n \in 1..Len(rs) : rs[n] = "true"}) = 1)
\* callback(instance), not negated
Negation_dropped(r) == r
\* not callback(instance)
Negation(r) == IF IsErr(r) THEN r ELSE B(r = "false")
\* some pattern of patternProperties matches key
SomePattern(patterns, key) == \E m \in 1..Len(patterns.ks) : re_search(patterns.ks[m], key)

RECURSIVE Validation_call(_, _, _, _)
\* then_callback or else_callback, chosen by what if_callback returned or raised
ThenOrElse(if_result, cb, x, vmap, active) ==
    IF IsErr(if_result) THEN if_result
    ELSE Validation_call(IF if_result = "true" THEN cb.then_callback ELSE cb.else_callback,
                         x, vmap, active)

Validation_call(cb, x, vmap, active) ==
    CASE cb.e = "unset" -> "AttributeError"
      [] cb.e = "true" -> "true"
      [] cb.e = "bool" -> B(cb.b)
      [] cb.e = "validation" ->
            IF <<cb.uri, x>> \in active THEN "RecursionError"
            ELSE Validation_call(vmap[cb.uri].callback, x, vmap,
                                 active \cup {<<cb.uri, x>>})
      [] cb.e = "all" -> AllOf([n \in 1..Len(cb.fs) |-> Validation_call(cb.fs[n], x, vmap, active)])
      [] cb.e = "gate" ->
            IF \E n \in 1..Len(cb.checkers) : type_map(cb.checkers[n], x)
            THEN Validation_call(cb.f, x, vmap, active) ELSE "true"
      [] cb.e = "type" ->
            IF cb.value.t = "str"
            THEN IF cb.value.s \in TypeNames THEN B(type_map(cb.value.s, x))
                 ELSE "KeyError"
            ELSE AnyOf([n \in 1..Len(cb.value.a) |-> TypeOf(cb.value.a[n], x)])
      [] cb.e = "enum" -> B(\E n \in 1..Len(cb.value.a) : PyEq(x, cb.value.a[n]))
      [] cb.e = "const" -> B(PyEq(x, cb.value))
      [] cb.e = "multipleOf" ->
            IF ~IsNumeric(cb.value) THEN "TypeError"
            ELSE IF NumH(cb.value) = 0 THEN "ZeroDivisionError"
            ELSE B(Abs(NumH(x)) % Abs(NumH(cb.value)) = 0)
      [] cb.e = "maximum" -> Compare("<=", NumH(x), cb.value)
      [] cb.e = "exclusiveMaximum" -> Compare("<", NumH(x), cb.value)
      [] cb.e = "minimum" -> Compare(">=", NumH(x), cb.value)
      [] cb.e = "exclusiveMinimum" -> Compare(">", NumH(x), cb.value)
      [] cb.e = "maxLength" -> Compare("<=", 2 * Len(x.s), cb.value)
      [] cb.e = "minLength" -> Compare(">=", 2 * Len(x.s), cb.value)
      [] cb.e = "pattern" ->
            IF cb.value.t # "str" THEN "TypeError" ELSE B(re_search(cb.value.s, x.s))
      [] cb.e = "items_list" ->
            UntilFirst([m \in 1..Min(Len(cb.fs), Len(x.a)) |->
                          Validation_call(cb.fs[m], x.a[m], vmap, active)], "false", "true")
      [] cb.e \in {"items", "contains"} ->
            UntilFirst([n \in 1..Len(x.a) |-> Validation_call(cb.f, x.a[n], vmap, active)],
                       IF cb.e = "items" THEN "false" ELSE "true",
                       IF cb.e = "items" THEN "true" ELSE "false")
      [] cb.e = "additionalItems" ->
            IF Get(cb.schema, "items", JNull).t = "arr"
               /\ Len(Get(cb.schema, "items", JNull).a) < Len(x.a)
            THEN UntilFirst([n \in 1..(Len(x.a) - Len(cb.schema.o["items"].a)) |->
                               Validation_call(cb.f, x.a[n + Len(cb.schema.o["items"].a)],
                                               vmap, active)],
                            "false", "true")
            ELSE "true"
      [] cb.e = "maxItems" -> Compare("<=", 2 * Len(x.a), cb.value)
      [] cb.e = "minItems" -> Compare(">=", 2 * Len(x.a), cb.value)
      [] cb.e = "uniqueItems" ->
            B(\A p \in Pairs(Len(x.a)) :
                ~(PyType(x.a[p[1]]) = PyType(x.a[p[2]]) /\ PyEq(x.a[p[1]], x.a[p[2]])))
      [] cb.e = "maxProperties" -> Compare("<=", 2 * Len(x.ks), cb.value)
      [] cb.e = "minProperties" -> Compare(">=", 2 * Len(x.ks), cb.value)
      [] cb.e = "required" ->
            IF ~Iterable(cb.value) THEN "TypeError"
            ELSE AllOf([n \in 1..Len(Items(cb.value)) |-> KeyIn(Items(cb.value)[n], x)])
      [] cb.e = "properties" ->
            UntilFirst([n \in 1..Len(cb.ks) |->
                          IF Has(x, cb.ks[n])
                          THEN Validation_call(cb.fs[n], x.o[cb.ks[n]], vmap, active)
                          ELSE "true"], "false", "true")
      [] cb.e = "patternProperties" ->
            \* the pairs (pattern p, key k) in the order of the two nested loops
            UntilFirst([n \in 1..(Len(cb.ks) * Len(x.ks)) |->
                          LET p == ((n - 1) \div Len(x.ks)) + 1
                              k == x.ks[((n - 1) % Len(x.ks)) + 1]
                          IN  IF re_search(cb.ks[p], k)
                              THEN Validation_call(cb.fs[p], x.o[k], vmap, active)
                              ELSE "true"], "false", "true")
      [] cb.e = "additionalProperties" ->
            UntilFirst([n \in 1..Len(x.ks) |->
                          CASE Has(Get(cb.schema, "properties", EmptyObj), x.ks[n]) -> "true"
                            [] SomePattern(Get(cb.schema, "patternProperties", EmptyObj),
                                           x.ks[n]) -> "true"
                            [] OTHER -> Validation_call(cb.f, x.o[x.ks[n]], vmap, active)],
                       "false", "true")
      [] cb.e = "dependencies" ->
            AllOf([n \in 1..Len(cb.kinds) |->
                     CASE ~Has(x, cb.dependency_key) -> "true"
                       [] cb.kinds[n] = "array" /\ ~Iterable(cb.dependency_value) -> "TypeError"
                       [] cb.kinds[n] = "array" -> KeysIn(Items(cb.dependency_value), x)
                       [] OTHER ->
                            UnlessFalse(Validation_call(cb.dependency_callback, x,
                                                        vmap, active))])
      [] cb.e = "propertyNames" ->
            AllOf([n \in 1..Len(x.ks) |-> Validation_call(cb.f, JStr(x.ks[n]), vmap, active)])
      [] cb.e = "if" ->
            ThenOrElse(Validation_call(cb.if_callback, x, vmap, active), cb, x, vmap, active)
      [] cb.e = "allOf" -> AllOf([n \in 1..Len(cb.fs) |-> Validation_call(cb.fs[n], x, vmap, active)])
      [] cb.e = "anyOf" -> AnyOf([n \in 1..Len(cb.fs) |-> Validation_call(cb.fs[n], x, vmap, active)])
      [] cb.e = "oneOf" -> ExactlyOne([n \in 1..Len(cb.fs) |-> Validation_call(cb.fs[n], x, vmap, active)])
      [] cb.e = "not" -> Negation(Validation_call(cb.f, x, vmap, active))

\* Validation.__call__ of the Validation compile returned
Validation___call__(compiled, instance) ==
    Validation_call(compiled.validation.callback, instance, compiled.validator_by_uri, {})

(***************************************************************************)
(* keywords.kw_deco: what every registry entry is wrapped in.              *)
(***************************************************************************)
\* Validation.check_schema: the exception raised, "" if none; st.meta_validation
\* is what "from jsonschemax.meta_validation import draft7_validation" binds
\* (r is what draft7_validation(schema) has returned or raised)
CheckResult(r) ==
    CASE r = "true" -> ""
      [] r = "false" -> "InvalidSchemaError"
      [] OTHER -> r
Validation_check_schema(st, check_schema, schema) ==
    IF ~check_schema THEN ""
    ELSE CheckResult(Validation___call__(st.meta_validation, schema))

\* the closure new_callback: the keyword's callback behind its type checkers
Gated(f, callback) ==
    IF type_checkers(f) # <<>>
    THEN [e |-> "gate", checkers |-> type_checkers(f), f |-> callback]
    ELSE callback

\* one step of a "$ref" pointer into the keyword's value
RefStep(value, ref_key) ==
    IF value.t = "obj"
    THEN IF Has(value, Join(ref_key)) THEN <<TRUE, value.o[Join(ref_key)], "">>
         ELSE <<FALSE, JNull, "">>
    ELSE IF value.t = "arr"
    THEN IF isdigit(ref_key) /\ int_raises(ref_key) THEN <<FALSE, JNull, "ValueError">>
         ELSE IF isdigit(ref_key) /\ int(ref_key) < Len(value.a)
         THEN <<TRUE, value.a[int(ref_key) + 1], "">>
         ELSE <<FALSE, JNull, "">>
    ELSE <<FALSE, JNull, "">>

\* the common "$ref" logic: the pointer's next token leads into the value
\* (chk is what validation.check_schema(subschema) has raised, "" if nothing)
RefChecked(m, chk, subschema, uri, sf, ref_list) ==
    IF chk # "" THEN Raise(m, chk)
    ELSE Call_evaluate(m, sf, subschema, uri, Tail(ref_list))
RefFound(m, step, uri, sf, ref_list) ==
    IF step[3] # "" THEN Raise(m, step[3])
    ELSE IF ~step[1] THEN Raise(m, "InvalidSchemaError")
    ELSE RefChecked(m, Validation_check_schema(m.st, sf.check_schema, step[2]), step[2],
                    uri, sf, ref_list)
RefDescent(m, value, uri, sf, ref_list) ==
    RefFound(m, RefStep(value, ref_list[1]), uri, sf, ref_list)

\* the frame "kw_deco" waits for callback = keyword_func(**kwargs)
new_keyword_func(m, f, value, schema, uri, sf, ref_list) ==
    CASE Has(schema, "$ref") /\ ref_list = <<>> -> Return(Logged(m, "keyword", f), TrueCb)
      [] ref_list # <<>> -> RefDescent(Logged(m, "keyword", f), value, uri, sf, ref_list)
      [] OTHER -> keyword_func(Push(Logged(m, "keyword", f), [f |-> "kw_deco", name |-> f]),
                               f, value, schema, uri, sf)
new_callback(m, fr) == Return(Pop(m), Gated(fr.name, m.now.cb))

(***************************************************************************)
(* compilation.Validation                                                  *)
(***************************************************************************)
\* the "$ref" branch of evaluate: the Validation registered for ref_uri.  The
\* frame "resolve" waits for validation.init to return.
\* (ResolveNew that registers the Validation only once init has returned)
ResolveNew_after_init(m, key, ref_schema, ref_fragment) ==
    Call_init(Push(Logged(m, "init", key),
                   [f |-> "resolve", key |-> key, ref_schema |-> ref_schema]),
              ref_schema, draft7_keyword_map, FALSE, parse_json_pointer(ref_fragment))
ResolveNew(m, key, ref_schema, ref_fragment) ==
    Call_init(Push(Logged(Logged([m EXCEPT !.st.validator_by_uri =
                                       (key :> FreshValidation) @@ @],
                                 "insert", key), "init", key),
                   [f |-> "resolve", key |-> key, ref_schema |-> ref_schema]),
              ref_schema, draft7_keyword_map, FALSE, parse_json_pointer(ref_fragment))
\* sp is split_uri(ref_uri)
\* (ResolveKey that returns the callback the Validation has when it is found)
ResolveKey_by_value(m, sf, key, sp) ==
    CASE key \in DOMAIN m.st.validator_by_uri ->
            Return(Logged(m, "hit", key), m.st.validator_by_uri[key].callback)
      [] key \notin DOMAIN m.st.validator_by_uri /\ sp[1] # <<>>
         /\ Join(sp[1]) \notin DOMAIN m.st.schema_by_uri ->
            Raise(m, "KeyError")
      [] OTHER ->
            ResolveNew(m, key, IF sp[1] # <<>> THEN m.st.schema_by_uri[Join(sp[1])]
                               ELSE sf.root_schema, sp[2])
ResolveKey(m, sf, key, sp) ==
    CASE key \in DOMAIN m.st.validator_by_uri ->
            Return(Logged(m, "hit", key), [e |-> "validation", uri |-> key])
      [] key \notin DOMAIN m.st.validator_by_uri /\ sp[1] # <<>>
         /\ Join(sp[1]) \notin DOMAIN m.st.schema_by_uri ->
            Raise(m, "KeyError")
      [] OTHER ->
            ResolveNew(m, key, IF sp[1] # <<>> THEN m.st.schema_by_uri[Join(sp[1])]
                               ELSE sf.root_schema, sp[2])
Resolve(m, sf, ref_uri) ==
    ResolveKey(Logged(m, "ref", Join(ref_uri)), sf, Join(ref_uri), split_uri(ref_uri))
\* return self.__global_validation_map[ref_uri], init having set its fields
Resolved(m, fr) ==
    Return(Logged([Pop(m) EXCEPT !.st.validator_by_uri =
                       (fr.key :> [schema |-> fr.ref_schema, root_id |-> m.now.root_id,
                                   callback |-> m.now.cb]) @@ @],
                  "done", fr.key),
           [e |-> "validation", uri |-> fr.key])

\* current_uri = urljoin(base_uri, schema["$id"]) if schema.get("$id") else base_uri
current_uri(schema, base_uri) ==
    IF Truthy(Get(schema, "$id", JNull))
    THEN urljoin(base_uri, Chars(schema.o["$id"].s))
    ELSE base_uri

\* the branch of evaluate taken with a ref_list left and no "$ref" to follow
EvaluatePointer(m, sf, schema, uri, ref_list) ==
    CASE Join(ref_list[1]) \in DOMAIN sf.keyword_map /\ Has(schema, Join(ref_list[1])) ->
            Call_keyword(m, sf.keyword_map[Join(ref_list[1])], schema.o[Join(ref_list[1])],
                         schema, uri, sf, Tail(ref_list))
      [] ~(Join(ref_list[1]) \in DOMAIN sf.keyword_map /\ Has(schema, Join(ref_list[1])))
         /\ evaluate_tokens(schema, ref_list)[3] # "" ->
            Raise(m, evaluate_tokens(schema, ref_list)[3])
      [] ~(Join(ref_list[1]) \in DOMAIN sf.keyword_map /\ Has(schema, Join(ref_list[1])))
         /\ evaluate_tokens(schema, ref_list)[1] ->
            Call_evaluate(m, sf, evaluate_tokens(schema, ref_list)[2], uri, <<>>)
      [] OTHER -> Raise(m, "InvalidSchemaError")

\* the loop over schema.items() of evaluate; the frame "evaluate" keeps the
\* keywords still to do (unknown keywords are skipped) and inner_callbacks
EvaluateKeywords(m, sf, schema, uri) ==
    Continue(Push(m, [f |-> "evaluate", sf |-> sf, schema |-> schema, uri |-> uri,
                      keys |-> SelectSeq(schema.ks,
                                         LAMBDA k : k \in DOMAIN sf.keyword_map),
                      inner_callbacks |-> <<>>]))
\* one turn of the loop; fr is the frame
EvaluateLoop(m, fr) ==
    IF fr.keys = <<>> THEN Return(Pop(m), [e |-> "all", fs |-> fr.inner_callbacks])
    ELSE Call_keyword(SetTop(m, [fr EXCEPT !.keys = Tail(@)]),
                      fr.sf.keyword_map[fr.keys[1]], fr.schema.o[fr.keys[1]],
                      fr.schema, fr.uri, fr.sf, <<>>)
\* inner_callbacks.append(inner_callback)
EvaluateAppend(m, fr) ==
    Continue(SetTop(m, [fr EXCEPT !.inner_callbacks = Append(@, m.now.cb)]))

Validation_evaluate(m, sf, schema, base_uri, ref_list) ==
    CASE schema.t = "bool" -> Return(m, [e |-> "bool", b |-> schema.b])
      [] schema.t \notin {"bool", "obj"} -> Raise(m, "AssertionError")
      [] schema.t = "obj" /\ Truthy(Get(schema, "$id", JNull))
         /\ schema.o["$id"].t # "str" -> Raise(m, "TypeError")
      [] OTHER ->
         CASE Has(schema, "$ref") /\ ref_list = <<>> /\ schema.o["$ref"].t # "str" ->
                Raise(m, "TypeError")
           [] Has(schema, "$ref") /\ ref_list = <<>> /\ schema.o["$ref"].t = "str" ->
                Resolve(m, sf, urljoin(current_uri(schema, base_uri),
                                       Chars(schema.o["$ref"].s)))
           [] ~Has(schema, "$ref") /\ ref_list = <<>> ->
                EvaluateKeywords(m, sf, schema, current_uri(schema, base_uri))
           [] OTHER ->
                EvaluatePointer(m, sf, schema, current_uri(schema, base_uri), ref_list)

\* Validation.init.  The frame "init" waits for self.evaluate to return.
\* (chk is what check_schema has raised, "" if nothing; root_id is self.__root_id
\* and root_abs_uri the absolute URI split_uri finds in it)
HasId(schema) == schema.t = "obj" /\ Has(schema, "$id")
InitRegister(m, schema, keyword_map, check_schema, ref_list, root_id, root_abs_uri) ==
    CASE HasId(schema) /\ root_abs_uri # ""
         /\ root_abs_uri \in DOMAIN m.st.schema_by_uri
         /\ ~PyEq(m.st.schema_by_uri[root_abs_uri], schema) ->
            Raise(m, "AssertionError")
      [] OTHER ->
            Call_evaluate(
                Push(IF HasId(schema) /\ root_abs_uri # ""
                     THEN Logged([m EXCEPT !.st.schema_by_uri = (root_abs_uri :> schema) @@ @],
                                 "register", root_abs_uri)
                     ELSE m,
                     [f |-> "init", root_id |-> root_id]),
                [root_schema |-> schema, keyword_map |-> keyword_map,
                 check_schema |-> check_schema],
                schema, Chars(root_id), ref_list)
InitRoot(m, schema, keyword_map, check_schema, ref_list, root_id) ==
    IF root_id.t # "str"
    THEN Raise(m, IF Truthy(root_id) THEN "AttributeError" ELSE "AssertionError")
    ELSE InitRegister(m, schema, keyword_map, check_schema, ref_list, root_id.s,
                      Join(split_uri(Chars(root_id.s))[1]))
\* (InitChecked that goes on whatever check_schema has raised)
InitChecked_late(m, schema, keyword_map, check_schema, ref_list, chk) ==
    InitRoot(Logged(m, "check_schema", IF chk # "" THEN chk ELSE "passed"), schema,
             keyword_map, check_schema, ref_list,
             IF HasId(schema) THEN schema.o["$id"] ELSE JStr(""))
InitChecked(m, schema, keyword_map, check_schema, ref_list, chk) ==
    IF chk # "" THEN Raise(Logged(m, "check_schema", chk), chk)
    ELSE InitRoot(Logged(m, "check_schema", "passed"), schema, keyword_map, check_schema,
                  ref_list, IF HasId(schema) THEN schema.o["$id"] ELSE JStr(""))
Validation_init(m, schema, keyword_map, check_schema, ref_list) ==
    InitChecked(m, schema, keyword_map, check_schema, ref_list,
                Validation_check_schema(m.st, check_schema, schema))
\* self.__callback = <what self.evaluate has returned>
Validation_callback(m, fr) ==
    [Pop(m) EXCEPT !.now = [op |-> "return", cb |-> m.now.cb, root_id |-> fr.root_id],
                   !.ended = (Len(m.stack) = 1)]

(***************************************************************************)
(* Running the calls.  Step does what m.now says; a compilation has ended  *)
(* when the outermost init has returned or an exception has been raised.   *)
(***************************************************************************)
\* the loop of the frame on top goes on
Loop(m, fr) ==
    CASE fr.f = "evaluate" -> EvaluateLoop(m, fr)
      [] fr.f = "each" -> ManySubsLoop(m, fr)
      [] fr.f = "dependencies" -> _dependencies_loop(m, fr)
\* the callee has returned m.now.cb to the frame on top
Resume(m, fr) ==
    CASE fr.f = "init" -> Validation_callback(m, fr)
      [] fr.f = "resolve" -> Resolved(m, fr)
      [] fr.f = "evaluate" -> EvaluateAppend(m, fr)
      [] fr.f = "kw_deco" -> new_callback(m, fr)
      [] fr.f = "one" -> OneSubReturn(m, fr)
      [] fr.f = "each" -> ManySubsAppend(m, fr)
      [] fr.f = "dependencies" -> _dependencies_callback(m, fr)
      [] fr.f = "if" -> _if_then(m, fr)
      [] fr.f = "then" -> _if_else(m, fr)
      [] fr.f = "else" -> _if_callback(m, fr)
Step(m) ==
    CASE m.now.op = "init" ->
            Validation_init(m, m.now.schema, m.now.keyword_map, m.now.check_schema,
                            m.now.ref_list)
      [] m.now.op = "evaluate" ->
            Validation_evaluate(m, m.now.sf, m.now.schema, m.now.base_uri, m.now.ref_list)
      [] m.now.op = "keyword" ->
            new_keyword_func(m, m.now.f, m.now.value, m.now.schema, m.now.uri, m.now.sf,
                             m.now.ref_list)
      [] m.now.op = "next" -> Loop(m, Top(m))
      [] m.now.op = "return" -> Resume(m, Top(m))
\* up to 2^d steps from m, stopping when the compilation has ended
RECURSIVE Run(_, _)
Run(m, d) == IF m.ended THEN m ELSE IF d = 0 THEN Step(m) ELSE Run(Run(m, d - 1), d - 1)


(***************************************************************************)
(* The packaged Draft-07 meta-schema (meta_schemas/draft-07.json).         *)
(***************************************************************************)
draft7_meta_schema ==
    Obj(<<"$schema", "$id", "title", "definitions", "type",
          "properties", "default">>,
        <<JStr("http://json-schema.org/draft-07/schema#"),
          JStr("http://json-schema.org/draft-07/schema#"),
          JStr("Core schema meta-schema"),
          Obj(<<"schemaArray", "nonNegativeInteger", "nonNegativeIntegerDefault0", "simpleTypes", "stringArray">>,
            <<Obj(<<"type", "minItems", "items">>,
                <<JStr("array"),
                  JInt(1),
                  O1("$ref", JStr("#"))>>),
              O2("type", JStr("integer"), "minimum", JInt(0)),
              Obj(<<"allOf">>,
                <<JArr(<<
                    O1("$ref", JStr("#/definitions/nonNegativeInteger")),
                    O1("default", JInt(0))>>)>>),
              Obj(<<"enum">>,
                <<JArr(<<
                    JStr("array"),
                    JStr("boolean"),
                    JStr("integer"),
                    JStr("null"),
                    JStr("number"),
                    JStr("object"),
                    JStr("string")>>)>>),
              Obj(<<"type", "items", "uniqueItems", "default">>,
                <<JStr("array"),
                  O1("type", JStr("string")),
                  JBool(TRUE),
                  JArr(<<>>)>>)>>),
          JArr(<<JStr("object"), JStr("boolean")>>),
          Obj(<<"$id", "$schema", "$ref", "$comment", "title",
              "description", "default", "readOnly", "examples", "multipleOf",
              "maximum", "exclusiveMaximum", "minimum", "exclusiveMinimum", "maxLength",
              "minLength", "pattern", "additionalItems", "items", "maxItems",
              "minItems", "uniqueItems", "contains", "maxProperties", "minProperties",
              "required", "additionalProperties", "definitions", "properties", "patternProperties",
              "dependencies", "propertyNames", "const", "enum", "type",
              "format", "contentMediaType", "contentEncoding", "if", "then",
              "else", "allOf", "anyOf", "oneOf", "not">>,
            <<O2("type", JStr("string"), "format", JStr("uri-reference")),
              O2("type", JStr("string"), "format", JStr("uri")),
              O2("type", JStr("string"), "format", JStr("uri-reference")),
              O1("type", JStr("string")),
              O1("type", JStr("string")),
              O1("type", JStr("string")),
              JBool(TRUE),
              O2("type", JStr("boolean"), "default", JBool(FALSE)),
              O2("type", JStr("array"), "items", JBool(TRUE)),
              O2("type", JStr("number"), "exclusiveMinimum", JInt(0)),
              O1("type", JStr("number")),
              O1("type", JStr("number")),
              O1("type", JStr("number")),
              O1("type", JStr("number")),
              O1("$ref", JStr("#/definitions/nonNegativeInteger")),
              O1("$ref", JStr("#/definitions/nonNegativeIntegerDefault0")),
              O2("type", JStr("string"), "format", JStr("regex")),
              O1("$ref", JStr("#")),
              Obj(<<"anyOf", "default">>,
                <<JArr(<<
                    O1("$ref", JStr("#")),
                    O1("$ref", JStr("#/definitions/schemaArray"))>>),
                  JBool(TRUE)>>),
              O1("$ref", JStr("#/definitions/nonNegativeInteger")),
              O1("$ref", JStr("#/definitions/nonNegativeIntegerDefault0")),
              O2("type", JStr("boolean"), "default", JBool(FALSE)),
              O1("$ref", JStr("#")),
              O1("$ref", JStr("#/definitions/nonNegativeInteger")),
              O1("$ref", JStr("#/definitions/nonNegativeIntegerDefault0")),
              O1("$ref", JStr("#/definitions/stringArray")),
              O1("$ref", JStr("#")),
              Obj(<<"type", "additionalProperties", "default">>,
                <<JStr("object"),
                  O1("$ref", JStr("#")),
                  EmptyObj>>),
              Obj(<<"type", "additionalProperties", "default">>,
                <<JStr("object"),
                  O1("$ref", JStr("#")),
                  EmptyObj>>),
              Obj(<<"type", "additionalProperties", "propertyNames", "default">>,
                <<JStr("object"),
                  O1("$ref", JStr("#")),
                  O1("format", JStr("regex")),
                  EmptyObj>>),
              Obj(<<"type", "additionalProperties">>,
                <<JStr("object"),
                  Obj(<<"anyOf">>,
                    <<JArr(<<
                        O1("$ref", JStr("#")),
                        O1("$ref", JStr("#/definitions/stringArray"))>>)>>)>>),
              O1("$ref", JStr("#")),
              JBool(TRUE),
              O2("type", JStr("array"), "items", JBool(TRUE)),
              Obj(<<"anyOf">>,
                <<JArr(<<
                    O1("$ref", JStr("#/definitions/simpleTypes")),
                    Obj(<<"type", "items", "minItems", "uniqueItems">>,
                        <<JStr("array"),
                          O1("$ref", JStr("#/definitions/simpleTypes")),
                          JInt(1),
                          JBool(TRUE)>>)>>)>>),
              O1("type", JStr("string")),
              O1("type", JStr("string")),
              O1("type", JStr("string")),
              O1("$ref", JStr("#")),
              O1("$ref", JStr("#")),
              O1("$ref", JStr("#")),
              O1("$ref", JStr("#/definitions/schemaArray")),
              O1("$ref", JStr("#/definitions/schemaArray")),
              O1("$ref", JStr("#/definitions/schemaArray")),
              O1("$ref", JStr("#"))>>),
          JBool(TRUE)>>)

(***************************************************************************)
(* compilation.compile.  remote_schemas is a function from absolute URI to *)
(* schema (the empty tuple for none); keyword_map "or" the Draft-07        *)
(* registry.  The result is [err, validation, schema_by_uri,               *)
(* validator_by_uri, trace], validation being the root Validation.         *)
(***************************************************************************)
MetaSchemaUri == "http://json-schema.org/draft-07/schema"
\* (m is how the call of validation.init has ended)
Compiled(schema, m) ==
    [err |-> CASE m.now.op = "raise" -> m.now.err
               [] m.now.op = "return" /\ m.ended -> ""
               [] OTHER -> "unfinished",
     validation |-> IF m.now.op = "return" /\ m.ended
                    THEN [schema |-> schema, root_id |-> m.now.root_id,
                          callback |-> m.now.cb]
                    ELSE FreshValidation,
     schema_by_uri |-> m.st.schema_by_uri,
     validator_by_uri |-> m.st.validator_by_uri,
     trace |-> m.st.trace]
\* validation = Validation(); validation.init(schema=..., ...) is about to start
\* (meta is the module global meta_validation.draft7_validation)
StartWith(meta, schema, keyword_map, remote_schemas, check_schema) ==
    Call_init([now |-> [op |-> "next"], stack |-> <<>>, ended |-> FALSE,
               st |-> [schema_by_uri |->
                           remote_schemas @@ (MetaSchemaUri :> draft7_meta_schema),
                       validator_by_uri |-> <<>>, trace |-> <<>>,
                       meta_validation |-> meta]],
              schema,
              IF DOMAIN keyword_map = {} THEN draft7_keyword_map ELSE keyword_map,
              check_schema, <<>>)

\* meta_validation.draft7_validation = compile(schema=draft7_meta_schema,
\* keyword_map=draft7_keyword_map, check_schema=False): while it is compiled,
\* the module global is not bound yet
NotBound == [validation |-> FreshValidation, validator_by_uri |-> <<>>]
draft7_compiled ==
    Compiled(draft7_meta_schema,
             Run(StartWith(NotBound, draft7_meta_schema, draft7_keyword_map, <<>>, FALSE),
                 StepBits))
draft7_validation(instance) == Validation___call__(draft7_compiled, instance)

Start(schema, keyword_map, remote_schemas, check_schema) ==
    StartWith(draft7_compiled, schema, keyword_map, remote_schemas, check_schema)
compile(schema, keyword_map, remote_schemas, check_schema) ==
    Compiled(schema, Run(Start(schema, keyword_map, remote_schemas, check_schema),
                         StepBits))

(***************************************************************************)
(* The inputs: schemas, remote schema maps and instances.                  *)
(***************************************************************************)
Ref(r) == O1("$ref", JStr(r))
Ty(name) == O1("type", JStr(name))
DefsA == O1("a", Ty("integer"))
\* {definitions: {a: {type: integer}}, properties: {p: sub}}
WithDefs(sub) == O2("definitions", DefsA, "properties", O1("p", sub))
MyList == JArr(<<JBool(TRUE), Ty("boolean")>>)

\* a "$ref" with one sibling keyword
RefSiblingSchemas ==
    { WithDefs(Ref("#/definitions/a")),
      WithDefs(O2("$ref", JStr("#/definitions/a"), "type", JStr("string"))),
      WithDefs(O2("maxItems", JInt(0), "$ref", JStr("#/definitions/a"))),
      WithDefs(O2("$ref", JStr("#/definitions/a"), "not", JBool(TRUE))),
      WithDefs(O2("$id", JStr("http://x/"), "$ref", JStr("#/definitions/a"))) }

\* a "$ref" whose fragment is a JSON Pointer that resolves in the root document
PointerSchemas ==
    { O2("not", Ty("integer"), "properties", O1("p", Ref("#/not"))),
      O2("items", Ty("integer"), "properties", O1("p", Ref("#/items"))),
      O2("items", JArr(<<Ty("integer"), Ty("string")>>),
         "properties", O1("p", Ref("#/items/1"))),
      O2("definitions", DefsA, "properties", O1("p", Ref("#/definitions"))),
      O2("my", Ty("integer"), "properties", O1("p", Ref("#/my"))),
      O2("my", MyList, "properties", O1("p", Ref("#/my/1"))),
      O2("m~n", Ty("integer"), "properties", O1("p", Ref("#/m~0n"))) }

\* a "$ref" whose fragment does not resolve in the root document
DanglingSchemas ==
    { O2("definitions", DefsA, "properties", O1("p", Ref("#/definitions/m"))),
      O2("my", MyList, "properties", O1("p", Ref("#/my/2"))),
      O2("my", MyList, "properties", O1("p", Ref("#/my/01"))),
      O2("my", MyList, "properties", O1("p", Ref("#/my/x"))),
      O2("my", MyList, "properties", O1("p", Ref("#/my/0/x"))),
      O2("my", MyList, "properties", O1("p", Ref("#/no"))),
      O2("my", MyList, "properties", O1("p", Ref("#/my/²"))),
      O2("minItems", JInt(0), "properties", O1("p", Ref("#/minItems/x"))),
      O2("required", JArr(<<JStr("a")>>), "properties", O1("p", Ref("#/required/²"))),
      O2("required", JArr(<<JStr("a")>>),
         "properties", O1("p", Ref("#/required/0/x"))) }

\* "$id" at the root and below it, and "$ref"s to absolute URIs
UriSchemas ==
    { O1("properties", O1("p", Ref("http://x/n.json"))),
      O1("properties", O1("p", Ref("http://x/r.json"))),
      O1("properties", O1("p", Ref("http://x/r.json#/definitions/a"))),
      O2("$id", JStr("http://x/a.json"), "properties", O1("p", Ref("http://x/a.json"))),
      O2("$id", JStr("http://x/a.json"), "properties", O1("p", Ref("r.json"))),
      O2("definitions", O1("a", O2("$id", JStr("http://x/a.json"), "type", JStr("integer"))),
         "properties", O1("p", Ref("http://x/a.json"))),
      O2("$id", JStr("http://x/"),
         "properties", O2("q", O2("$id", JStr("a.json"), "type", JStr("integer")),
                          "p", Ref("a.json"))),
      O2("$id", JStr("foo.json"), "properties", O1("p", Ref("foo.json"))),
      O2("$id", JStr("#f"), "type", JStr("integer")),
      O2("$id", JStr("http://x/a.json#f"), "type", JStr("integer")),
      O2("$id", JStr("http://x/r.json"), "type", JStr("string")) }

\* recursive schemas, schemas the meta-schema rejects, plain schemas
OtherSchemas ==
    { O1("properties", O1("child", Ref("#"))),
      Ref("#"),
      O1("not", Ref("#")),
      O1("minItems", JInt(-1)),
      O2("$id", JStr("http://x/a.json"), "minItems", JInt(-1)),
      O2("properties", O1("p", Ref("#")), "type", JInt(1)),
      O1("minItems", JInt(0)),
      Ty("integer"),
      O1("uniqueItems", JBool(FALSE)),
      JBool(TRUE), JBool(FALSE) }

\* one type-targeted keyword each, with a well-typed value that the keyword's
\* own evaluator holds against (almost) every instance of its target type
GatedSchemas ==
    { O1("multipleOf", JInt(7)), O1("maximum", JInt(-1)), O1("minimum", JInt(100)),
      O1("exclusiveMaximum", JInt(-1)), O1("exclusiveMinimum", JInt(100)),
      O1("maxLength", JInt(0)), O1("minLength", JInt(100)), O1("pattern", JStr("zz")),
      O1("items", JBool(FALSE)), O1("additionalItems", JBool(FALSE)),
      O1("maxItems", JInt(0)), O1("minItems", JInt(100)),
      O1("uniqueItems", JBool(TRUE)), O1("contains", JBool(FALSE)),
      O1("maxProperties", JInt(0)), O1("minProperties", JInt(100)),
      O1("required", JArr(<<JStr("zz")>>)), O1("properties", O1("p", JBool(FALSE))),
      O1("patternProperties", O1("p", JBool(FALSE))),
      O1("additionalProperties", JBool(FALSE)),
      O1("dependencies", O1("p", JArr(<<JStr("zz")>>))),
      O1("propertyNames", JBool(FALSE)) }

\* the schemas S of the schemas {not: S}
NotOperands ==
    { Ty("integer"), JBool(TRUE), JBool(FALSE), O1("maximum", JInt(-1)),
      O1("required", JArr(<<JStr("p")>>)), O1("properties", O1("p", Ty("string"))),
      O1("properties", O1("child", Ref("#"))) }
NotSchemas == { O1("not", S) : S \in NotOperands }

\* const and enum
ConstEnumSchemas ==
    { O1("const", JInt(1)), O1("const", JBool(FALSE)), O1("const", JStr("s")),
      O1("enum", JArr(<<JArr(<<JInt(1)>>)>>)), O1("enum", JArr(<<JInt(1), JStr("s")>>)) }

\* dependencies with one entry and with two
DependencySchemas ==
    { O1("dependencies", O1("a", JArr(<<JStr("b")>>))),
      O1("dependencies", O2("a", JArr(<<JStr("b")>>), "c", JArr(<<JStr("d")>>))),
      O1("dependencies", O2("a", O1("required", JArr(<<JStr("b")>>)),
                            "c", JArr(<<JStr("d")>>))) }

\* a "$ref" pointer that leads through the value of a known keyword to a
\* sub-document that is not a valid schema (the root document is valid: the
\* values of enum, const and required are not schemas)
InvalidDescentSchemas ==
    { O2("enum", JArr(<<O1("minItems", JInt(-1))>>), "properties", O1("p", Ref("#/enum/0"))),
      O2("const", O1("k", O1("type", JInt(1))), "properties", O1("p", Ref("#/const/k"))),
      O2("required", JArr(<<JStr("a")>>), "properties", O1("p", Ref("#/required/0"))) }

Schemas ==
    RefSiblingSchemas \cup PointerSchemas \cup DanglingSchemas \cup UriSchemas
    \cup OtherSchemas \cup GatedSchemas \cup NotSchemas \cup ConstEnumSchemas
    \cup DependencySchemas \cup InvalidDescentSchemas

\* remote_schemas: none, or one document registered under an absolute URI
RemoteMaps ==
    { <<>>,
      "http://x/r.json" :> O2("definitions", DefsA, "type", JStr("integer")) }

\* "$ref"s that form a cycle in the root document: two definitions that are
\* each other, and two that contain each other
CyclicSchemas ==
    { O2("definitions", O2("a", Ref("#/definitions/b"), "b", Ref("#/definitions/a")),
         "properties", O1("p", Ref("#/definitions/a"))),
      O2("definitions", O2("a", O1("properties", O1("x", Ref("#/definitions/b"))),
                           "b", O1("properties", O1("y", Ref("#/definitions/a")))),
         "properties", O1("p", Ref("#/definitions/a"))) }
\* "$ref"s that form a cycle through remote documents: two documents that
\* refer to each other by absolute URI, two with "$id" that refer to each other
\* by relative URI, one that refers to itself
RemoteCycleSchemas ==
    { O1("properties", O1("p", Ref("http://x/c.json"))),
      O2("$id", JStr("http://x/a.json"), "properties", O1("p", Ref("c.json"))) }
CyclicRemoteMaps ==
    { ("http://x/c.json" :> O1("properties", O1("q", Ref("http://x/d.json"))))
      @@ ("http://x/d.json" :> O1("properties", O1("q", Ref("http://x/c.json")))),
      ("http://x/c.json" :> O2("$id", JStr("http://x/c.json"),
                               "properties", O1("q", Ref("d.json"))))
      @@ ("http://x/d.json" :> O2("$id", JStr("http://x/d.json"),
                                  "properties", O1("q", Ref("c.json")))),
      "http://x/c.json" :> O1("properties", O1("q", Ref("#"))) }

\* the calls of compile: its arguments (keyword_map <<>> is the default, None)
\* a root document and a remote document without "$id" that define the same
\* pointer differently, each referring to its own
SharedPointerSchemas ==
    { O2("definitions", O1("x", O1("type", JStr("integer"))),
         "properties", O2("a", Ref("#/definitions/x"), "b", Ref("http://x/r.json"))),
      O2("definitions", O1("x", O1("type", JStr("integer"))),
         "properties", O2("b", Ref("http://x/r.json"), "a", Ref("#/definitions/x"))) }
SharedPointerRemoteMaps ==
    { "http://x/r.json" :>
          O2("definitions", O1("x", O1("type", JStr("string"))),
             "properties", O1("q", Ref("#/definitions/x"))),
      "http://x/r.json" :>
          O3("$id", JStr("http://x/r.json"),
             "definitions", O1("x", O1("type", JStr("string"))),
             "properties", O1("q", Ref("#/definitions/x"))) }
\* registries a caller passes as keyword_map: Draft-07 with the function of
\* "type" registered once more as "kind", and Draft-07 without "type"
CallerRegistries ==
    { ("kind" :> "_type") @@ draft7_keyword_map,
      [k \in DOMAIN draft7_keyword_map \ {"type"} |-> draft7_keyword_map[k]] }
\* schemas that use "kind" and "type", at the root, in a property and in the
\* target of a "$ref"
RegistrySchemas ==
    { O1(k, JStr("integer")) : k \in {"kind", "type"} }
    \cup { O1("properties", O1("p", O1(k, JStr("integer")))) : k \in {"kind", "type"} }
    \cup { O2("definitions", O1("x", O1(k, JStr("integer"))),
              "properties", O1("p", Ref("#/definitions/x"))) : k \in {"kind", "type"} }
CompileCalls ==
    { [schema |-> s, keyword_map |-> <<>>, remote_schemas |-> r, check_schema |-> c] :
         s \in Schemas \cup CyclicSchemas, r \in RemoteMaps, c \in BOOLEAN }
    \cup
    { [schema |-> s, keyword_map |-> <<>>, remote_schemas |-> r, check_schema |-> c] :
         s \in RemoteCycleSchemas, r \in CyclicRemoteMaps, c \in BOOLEAN }
    \cup { [schema |-> s, keyword_map |-> <<>>, remote_schemas |-> r, check_schema |-> c] :
         s \in SharedPointerSchemas, r \in SharedPointerRemoteMaps, c \in BOOLEAN }
    \cup { [schema |-> s, keyword_map |-> k, remote_schemas |-> <<>>, check_schema |-> c] :
         s \in RegistrySchemas, k \in CallerRegistries, c \in BOOLEAN }

\* {child: {child: ... leaf}}, d levels deep
RECURSIVE Chain(_, _)
Chain(d, leaf) == IF d = 0 THEN leaf ELSE O1("child", Chain(d - 1, leaf))

Instances ==
    { JNull, JBool(TRUE), JBool(FALSE), JInt(1), JInt(0), JFloat(2), JStr("s"),
      JArr(<<>>), JArr(<<JInt(1), JStr("s")>>), JArr(<<JInt(1)>>), JArr(<<JBool(TRUE)>>),
      JArr(<<JInt(1), JBool(TRUE)>>), JArr(<<JInt(1), JFloat(2)>>), JArr(<<JInt(1), JInt(1)>>),
      JArr(<<JArr(<<JInt(1)>>), JArr(<<JBool(TRUE)>>)>>),
      O1("p", JInt(1)), O1("p", JStr("s")), O1("p", JArr(<<JInt(1)>>)),
      O1("a", JInt(1)), O1("c", JInt(1)), O2("a", JInt(1), "b", JInt(1)),
      O3("a", JInt(1), "c", JInt(1), "d", JInt(1)) }
    \cup { Chain(d, leaf) : d \in 0..MaxDepth, leaf \in {EmptyObj, JInt(5)} }

(***************************************************************************)
(* The program as a state machine: one call of compile, which runs step by *)
(* step, then calls of the Validation it returned.                         *)
(*   pc                 "idle" before compile, "compiling" while it runs,  *)
(*                      then "compiled" or "failed"                        *)
(*   arg_schema, arg_keyword_map, arg_remote_schemas, arg_check_schema      *)
(*                      the arguments compile was called with              *)
(*   now, stack         what compile does next and its call stack          *)
(*   schema_by_uri      global_schema_map                                  *)
(*   validator_by_uri   global_validation_map                              *)
(*   validation         the Validation compile returned                    *)
(*   raised             the exception compile raised, "" if none           *)
(*   trace              the steps compile took, in order (history)         *)
(*   steps              how many steps the compilation has taken (history) *)
(*   called_on, verdict the instance of the last call and its outcome      *)
(*                      ("true", "false" or the exception raised)          *)
(***************************************************************************)
VARIABLES pc, arg_schema, arg_keyword_map, arg_remote_schemas, arg_check_schema,
          now, stack, schema_by_uri, validator_by_uri, validation, raised, trace, steps,
          called_on, verdict,
          applied, argument, returned

compiler_vars == <<pc, arg_schema, arg_keyword_map, arg_remote_schemas,
                   arg_check_schema, now, stack, schema_by_uri, validator_by_uri, validation, raised, trace,
                   steps, called_on, verdict>>
helper_vars == <<applied, argument, returned>>
vars == <<compiler_vars, helper_vars>>

\* no helper function is applied on its own
NoHelper == applied = "" /\ argument = JNull /\ returned = JNull

\* compile has not been called
Idle ==
    /\ pc = "idle"
    /\ arg_schema = JNull
    /\ arg_keyword_map = <<>>
    /\ arg_remote_schemas = <<>>
    /\ arg_check_schema = FALSE
    /\ now = [op |-> "next"]
    /\ stack = <<>>
    /\ schema_by_uri = <<>>
    /\ validator_by_uri = <<>>
    /\ validation = FreshValidation
    /\ raised = ""
    /\ trace = <<>>
    /\ steps = 0
    /\ called_on = JNull
    /\ verdict = ""
Init == NoHelper /\ Idle

\* the running compilation, as the functions of the compiler see it
Machine ==
    [now |-> now, stack |-> stack, ended |-> FALSE,
     st |-> [schema_by_uri |-> schema_by_uri, validator_by_uri |-> validator_by_uri,
             trace |-> trace, meta_validation |-> draft7_compiled]]
\* the compilation goes on as m, or has ended as m: then compile returns the
\* Validation or lets the exception through (c is Compiled of m)
Becomes(m, c) ==
    /\ pc' = IF ~m.ended THEN "compiling" ELSE IF c.err = "" THEN "compiled" ELSE "failed"
    /\ now' = m.now
    /\ stack' = m.stack
    /\ schema_by_uri' = c.schema_by_uri
    /\ validator_by_uri' = c.validator_by_uri
    /\ validation' = c.validation
    /\ raised' = IF m.ended THEN c.err ELSE ""
    /\ trace' = c.trace

\* validation = compile(schema, keyword_map=..., remote_schemas=...,
\* check_schema=...): up to the call of validation.init
Compile(s, registry, remotes, chk) ==
    /\ pc = "idle"
    /\ Becomes(Start(s, registry, remotes, chk),
               Compiled(s, Start(s, registry, remotes, chk)))
    /\ arg_schema' = s
    /\ arg_keyword_map' = registry
    /\ arg_remote_schemas' = remotes
    /\ arg_check_schema' = chk
    /\ UNCHANGED <<steps, called_on, verdict, helper_vars>>

\* the next part of init, evaluate or a keyword function: up to the call it
\* makes, its return or the exception it raises
Proceed ==
    /\ pc = "compiling"
    /\ Len(stack) < MaxStack
    /\ Becomes(Step(Machine), Compiled(arg_schema, Step(Machine)))
    /\ steps' = steps + 1
    /\ UNCHANGED <<arg_schema, arg_keyword_map, arg_remote_schemas, arg_check_schema,
                   called_on, verdict, helper_vars>>

\* validation(x)
\* a __call__ that keeps the verdict: once it has returned true, the returned
\* Validation accepts everything
Call_remembering(x) ==
    /\ pc = "compiled"
    /\ called_on' = x
    /\ verdict' = Validation_call(validation.callback, x, validator_by_uri, {})
    /\ validation' = IF verdict' = "true" THEN [validation EXCEPT !.callback = TrueCb]
                     ELSE validation
    /\ UNCHANGED <<pc, arg_schema, arg_keyword_map, arg_remote_schemas, arg_check_schema,
                   now, stack, schema_by_uri, validator_by_uri, raised, trace,
                   steps, helper_vars>>
Call(x) ==
    /\ pc = "compiled"
    /\ called_on' = x
    /\ verdict' = Validation_call(validation.callback, x, validator_by_uri, {})
    /\ UNCHANGED <<pc, arg_schema, arg_keyword_map, arg_remote_schemas, arg_check_schema,
                   now, stack, schema_by_uri, validator_by_uri, validation, raised, trace,
                   steps, helper_vars>>

Next ==
    \/ \E c \in CompileCalls :
          Compile(c.schema, c.keyword_map, c.remote_schemas, c.check_schema)
    \/ Proceed
    \/ \E x \in Instances : Call(x)

Spec == Init /\ [][Next]_vars
\* the running compilation takes one more step: the steps of Proceed, as the
\* step count shows them (Proceed is the only action that counts a step, and it
\* can be taken exactly when Advance can)
Advance ==
    /\ pc = "compiling"
    /\ Len(stack) < MaxStack
    /\ steps' = steps + 1
\* compile runs in the thread of its caller and takes its steps one after the
\* other: a compilation that can take a step takes it
LiveSpec == Spec /\ WF_steps(Advance)

(***************************************************************************)
(* The helper functions on their own: one application of a function of     *)
(* types.py or of utils.JsonPointer to an input.                           *)
(*   argument           the function to apply (f) and what it is given     *)
(*   applied            the function that has been applied, "" before      *)
(*   returned           what it has returned                               *)
(***************************************************************************)
\* the JSON values the type predicates are given
TypeInputs ==
    { JNull, JBool(TRUE), JBool(FALSE), JInt(1), JInt(0), JInt(-3),
      JFloat(2), JFloat(3), JFloat(0), JFloat(-4),
      JNonFinite("inf"), JNonFinite("-inf"), JNonFinite("nan"),
      JStr("1"), JStr(""), JArr(<<>>), JArr(<<JInt(1)>>), EmptyObj, O1("p", JInt(1)) }
\* the JSON Pointers that are parsed
PointerInputs ==
    { "", "#", "/", "#/", "#/~01", "/m~0n", "/a~1b", "#/a%25b", "/~10", "/~0~1",
      "a/b", "#a", "/a/", "//", "/~", "/~2", "/%7E1", "/a/0", "#/~1~0", "/~00" }
\* the documents that are walked, and the tokens they are walked with
WalkDocs ==
    { Obj(<<"a", "", "0">>, <<JArr(<<JInt(1), O1("b", JStr("s"))>>), JInt(5), JNull>>),
      JArr(<<JStr("a"), JStr("b")>>), JInt(5), JStr("abc") }
WalkTokens ==
    { <<>>, <<"a">>, <<"a", "0">>, <<"a", "1">>, <<"a", "1", "b">>, <<"a", "1", "b", "0">>,
      <<"a", "2">>, <<"a", "01">>, <<"a", "x">>, <<"a", "-1">>, <<"a", "">>, <<"a", "²">>,
      <<"">>, <<"0">>, <<"1">>, <<"2">>, <<"x">>, <<"0", "0">> }
HelperInputs ==
    { [f |-> "types", x |-> x] : x \in TypeInputs }
    \cup { [f |-> "parse_json_pointer", json_pointer |-> q] : q \in PointerInputs }
    \cup { [f |-> "evaluate_tokens", json_doc |-> d, json_pointer_tokens |-> ts] :
             d \in WalkDocs, ts \in WalkTokens }

HelperInit ==
    /\ Idle
    /\ applied = ""
    /\ argument \in HelperInputs
    /\ returned = JNull

\* is_null(x), is_boolean(x), ...: each predicate of type_map applied to x
TypePredicates ==
    /\ applied = "" /\ argument.f = "types"
    /\ applied' = "types"
    /\ returned' = [name \in TypeNames |-> type_map(name, argument.x)]
    /\ UNCHANGED <<argument, compiler_vars>>
\* JsonPointer.parse_json_pointer(json_pointer)
ParseJsonPointer ==
    /\ applied = "" /\ argument.f = "parse_json_pointer"
    /\ applied' = "parse_json_pointer"
    /\ returned' = parse_json_pointer(Chars(argument.json_pointer))
    /\ UNCHANGED <<argument, compiler_vars>>

\* JsonPointer.evaluate_tokens(json_doc, json_pointer_tokens)
EvaluateTokens ==
    /\ applied = "" /\ argument.f = "evaluate_tokens"
    /\ applied' = "evaluate_tokens"
    /\ returned' = evaluate_tokens(argument.json_doc,
                                   [n \in 1..Len(argument.json_pointer_tokens) |->
                                      Chars(argument.json_pointer_tokens[n])])
    /\ UNCHANGED <<argument, compiler_vars>>

HelperNext ==
    \/ TypePredicates
    \/ ParseJsonPointer
    \/ EvaluateTokens

HelperSpec == HelperInit /\ [][HelperNext]_vars

(***************************************************************************)
(* Properties of "$ref".                                                   *)
(***************************************************************************)
\* the events name(u) of the compilation so far, by their place in trace
Events(name, u) == {i \in 1..Len(trace) : trace[i] = Ev(name, u)}
\* compile has returned or raised
Ended == pc \in {"compiled", "failed"}

\* RefSiblingSchemas with the target {type: integer} in the place of the "$ref"
TargetAlone == compile(WithDefs(Ty("integer")), <<>>, <<>>, FALSE)

\* C1: a schema with "$ref" gives on every instance the verdict of the
\* referenced target alone, whatever sibling keywords stand next to the "$ref":
\* each schema of RefSiblingSchemas compiles, and each call of its validator
\* returns what the validator of the schema with the target in place returns.
C1_SiblingsNeverChangeVerdict ==
    arg_schema \in RefSiblingSchemas /\ Ended =>
        /\ pc = "compiled"
        /\ verdict # "" => verdict = Validation___call__(TargetAlone, called_on)

\* the "$ref" of a schema of PointerSchemas, and the sub-schema S that its
\* JSON Pointer names in the root document
PointerRef == arg_schema.o["properties"].o["p"].o["$ref"].s
PointerTarget == evaluate_tokens(arg_schema, parse_json_pointer(Chars(PointerRef)))[2]

\* C2: the validator obtained for a "$ref" whose fragment is a JSON Pointer to
\* a sub-schema S of the document gives on every instance the verdict of S, also
\* when the pointer is the single token of a known keyword ("#/not", "#/items").
C2_PointerRefGivesVerdictOfTarget ==
    arg_schema \in PointerSchemas /\ pc = "compiled" =>
        \A x \in Instances :
            Validation_call([e |-> "validation", uri |-> PointerRef], x, validator_by_uri, {})
            = Validation___call__(compile(PointerTarget, <<>>, <<>>, FALSE), x)

\* C3: the handle of a reference URI u is in validator_by_uri before the
\* compilation of u's target begins and stays there; a "$ref" that resolves to u
\* after that finds the handle, returns it (the handle of u is what evaluate
\* returns for every "$ref" to u) and starts no compilation; so the target of u
\* is compiled at most once in a compile call.
C3_HandleBeforeTargetCompiledOnce ==
    /\ pc = "compiling" /\ now.op = "init" /\ stack # <<>> =>
           /\ stack[Len(stack)].f = "resolve"
           /\ stack[Len(stack)].key \in DOMAIN validator_by_uri
    /\ pc = "compiling" /\ now.op = "return" /\ now.cb.e = "validation" =>
           /\ now.cb.uri \in DOMAIN validator_by_uri
           /\ trace[Len(trace)] \in {Ev("hit", now.cb.uri), Ev("done", now.cb.uri)}
    /\ \A i \in 1..Len(trace) :
           /\ trace[i].ev = "init" =>
                  /\ Events("insert", trace[i].arg) # {}
                  /\ \A j \in Events("insert", trace[i].arg) : j < i
                  /\ Events("init", trace[i].arg) = {i}
           /\ trace[i].ev = "insert" => trace[i].arg \in DOMAIN validator_by_uri
           /\ trace[i].ev = "ref" /\ (\E j \in Events("insert", trace[i].arg) : j < i) =>
                  /\ i < Len(trace)
                  /\ trace[i + 1] = Ev("hit", trace[i].arg)
\* a "$ref" to u has found the handle while the target of u is being compiled
C3_HitWhileTargetIsCompiled ==
    \E i \in 1..Len(trace) :
        /\ trace[i].ev = "hit"
        /\ \E j \in Events("insert", trace[i].arg) : j < i
        /\ Events("done", trace[i].arg) = {}
        /\ pc = "compiling"

\* {properties: {child: {"$ref": "#"}}}
Recursive == O1("properties", O1("child", Ref("#")))

\* C4 (as claimed): the validator of the recursive schema returns true for
\* {child: {child: {}}} and false for {child: 5}.
C4_RecursiveRejectsFive ==
    arg_schema = Recursive /\ pc = "compiled" =>
        /\ called_on = Chain(2, EmptyObj) /\ verdict # "" => verdict = "true"
        /\ called_on = Chain(1, JInt(5)) /\ verdict # "" => verdict = "false"
\* C4 (amended): the validator of the recursive schema returns true for
\* {child: {child: {}}} and true for {child: 5}: 5 is no object, and
\* "properties" constrains objects only.
C4_RecursiveAcceptsBoth ==
    arg_schema = Recursive /\ pc = "compiled" =>
        /\ called_on = Chain(2, EmptyObj) /\ verdict # "" => verdict = "true"
        /\ called_on = Chain(1, JInt(5)) /\ verdict # "" => verdict = "true"
\* the validator of the recursive schema has been called on {child: 5}
C4_CalledOnChildFive ==
    arg_schema = Recursive /\ pc = "compiled" /\ called_on = Chain(1, JInt(5))
    /\ verdict = "true"

\* C5: a call of the validator of a schema that compile accepted returns a
\* boolean and raises nothing.
C5_CallReturnsBoolean ==
    pc = "compiled" /\ verdict # "" => verdict \in {"true", "false"}

\* global_schema_map as compile builds it, before init
SeededSchemas == arg_remote_schemas @@ (MetaSchemaUri :> draft7_meta_schema)

\* C6: with check_schema on and a root schema that the meta-validator rejects,
\* compile raises InvalidSchemaError, and until then no "$id" has been
\* registered, no keyword compiler and no "$ref" resolution has run, and
\* schema_by_uri and validator_by_uri are as compile seeded them.
C6_RejectedRootFailsBeforeAnythingElse ==
    arg_check_schema /\ pc # "idle" /\ draft7_validation(arg_schema) = "false" =>
        /\ schema_by_uri = SeededSchemas
        /\ validator_by_uri = <<>>
        /\ \A i \in 1..Len(trace) : trace[i] = Ev("check_schema", "InvalidSchemaError")
        /\ \/ pc = "compiling" /\ now.op = "init" /\ stack = <<>> /\ trace = <<>>
           \/ pc = "failed" /\ raised = "InvalidSchemaError" /\ Len(trace) = 1
\* compile has rejected {"$id": "http://x/a.json", minItems: -1}
C6_RejectedRootWithId ==
    /\ arg_check_schema
    /\ arg_schema = O2("$id", JStr("http://x/a.json"), "minItems", JInt(-1))
    /\ pc = "failed"
    /\ raised = "InvalidSchemaError"
    /\ "http://x/a.json" \notin DOMAIN schema_by_uri

\* C7: compile raises InvalidSchemaError when the JSON Pointer of a "$ref" does
\* not resolve in the document (no such key, no such index, or a token applied
\* to a primitive value), whether its first token is a known keyword or not.
C7_DanglingPointerIsInvalidSchema ==
    arg_schema \in DanglingSchemas /\ Ended =>
        pc = "failed" /\ raised = "InvalidSchemaError"

\* the absolute part of the URI u
AbsPart(u) == Join(split_uri(Chars(u))[1])

\* C8: when a "$ref" resolves to a URI whose absolute part is not empty and no
\* key of schema_by_uri, compile fails with InvalidSchemaError.
C8_UnregisteredUriIsInvalidSchema ==
    \A i \in 1..Len(trace) :
        trace[i].ev = "ref" /\ AbsPart(trace[i].arg) # ""
        /\ AbsPart(trace[i].arg) \notin DOMAIN schema_by_uri =>
            pc = "failed" /\ raised = "InvalidSchemaError"

\* C9: an object schema with "$id" that compilation visits is registered in
\* schema_by_uri under the URI its "$id" resolves to against the current base,
\* if that URI has an absolute part; here for every schema whose keywords are
\* being compiled (uri is that resolved URI).
C9_VisitedIdIsRegistered ==
    \A n \in 1..Len(stack) :
        stack[n].f = "evaluate" /\ Truthy(Get(stack[n].schema, "$id", JNull))
        /\ Join(split_uri(stack[n].uri)[1]) # "" =>
            /\ Join(split_uri(stack[n].uri)[1]) \in DOMAIN schema_by_uri
            /\ schema_by_uri[Join(split_uri(stack[n].uri)[1])] = stack[n].schema

\* C10: every key of schema_by_uri is an absolute URI: it has a scheme and no
\* fragment; a relative or fragment-only root "$id" never becomes a key.
C10_KeysAreAbsolute ==
    \A k \in DOMAIN schema_by_uri :
        /\ urlsplit(Chars(k), <<>>).scheme # <<>>
        /\ "#" \notin Range(Chars(k))
\* the JSON type of an instance (a boolean is not a number)
JsonType(x) ==
    CASE x.t = "null" -> "null" [] x.t = "bool" -> "boolean"
      [] x.t \in {"int", "float"} -> "number" [] x.t = "str" -> "string"
      [] x.t = "arr" -> "array" [] x.t = "obj" -> "object"
\* the JSON type each type-targeted keyword applies to
TargetType(K) ==
    CASE K \in {"multipleOf", "maximum", "minimum", "exclusiveMaximum",
                "exclusiveMinimum"} -> "number"
      [] K \in {"maxLength", "minLength", "pattern"} -> "string"
      [] K \in {"items", "additionalItems", "maxItems", "minItems", "uniqueItems",
                "contains"} -> "array"
      [] K \in {"maxProperties", "minProperties", "required", "properties",
                "patternProperties", "additionalProperties", "dependencies",
                "propertyNames"} -> "object"

\* C11: a schema {K: v} of one type-targeted keyword K with a well-typed v
\* compiles, and the validator returns true on every instance whose JSON type
\* is not the target type of K (a boolean is not a number): the keyword's own
\* evaluator, which would reject the instance or fail on it, is not run.
C11_OffTypeInstanceIsAccepted ==
    arg_schema \in GatedSchemas =>
        /\ Ended => pc = "compiled"
        /\ verdict # "" /\ JsonType(called_on) # TargetType(arg_schema.ks[1]) =>
              verdict = "true"
\* {maximum: -1} has been called on true
C11_BooleanUnderMaximum ==
    /\ arg_schema = O1("maximum", JInt(-1)) /\ pc = "compiled"
    /\ called_on = JBool(TRUE) /\ verdict = "true"

\* the verdict of compile(S) alone on the instance of the last call, for the
\* compiled schema {not: S}
OperandVerdict == Validation___call__(compile(arg_schema.o["not"], <<>>, <<>>, FALSE), called_on)
\* schema x has a "$ref" somewhere in it
RECURSIVE ContainsRef(_)
ContainsRef(x) ==
    CASE x.t = "obj" -> Has(x, "$ref") \/ \E k \in DOMAIN x.o : ContainsRef(x.o[k])
      [] x.t = "arr" -> \E n \in 1..Len(x.a) : ContainsRef(x.a[n])
      [] OTHER -> FALSE

\* C12 as stated: for every schema S and instance x on which compile(S)
\* gives a verdict, compile({not: S})(x) is the logical negation of it.
C12_NotIsNegation ==
    arg_schema \in NotSchemas /\ pc = "compiled" /\ verdict # ""
    /\ OperandVerdict \in {"true", "false"} =>
        verdict = (IF OperandVerdict = "true" THEN "false" ELSE "true")
\* C12, amended: the same for every schema S that contains no "$ref" (a "$ref"
\* in S resolves against the document it stands in, which is {not: S} and not S).
C12_NotIsNegationWithoutRef ==
    arg_schema \in NotSchemas /\ ~ContainsRef(arg_schema) =>
        /\ Ended => pc = "compiled"
        /\ verdict # "" =>
              /\ OperandVerdict \in {"true", "false"}
              /\ verdict = (IF OperandVerdict = "true" THEN "false" ELSE "true")
\* {not: {type: integer}} has rejected 1
C12_NotIntegerRejectsOne ==
    /\ arg_schema = O1("not", Ty("integer")) /\ pc = "compiled"
    /\ called_on = JInt(1) /\ verdict = "false"

\* structural JSON equality: the same JSON type and, recursively, equal
\* (numbers by value, so 1 equals 1.0; a boolean equals no number)
RECURSIVE JsonEq(_, _)
JsonEq(x, y) ==
    /\ JsonType(x) = JsonType(y)
    /\ CASE JsonType(x) = "number" -> NumH(x) = NumH(y)
         [] JsonType(x) = "array" ->
              Len(x.a) = Len(y.a) /\ \A n \in 1..Len(x.a) : JsonEq(x.a[n], y.a[n])
         [] JsonType(x) = "object" ->
              DOMAIN x.o = DOMAIN y.o /\ \A k \in DOMAIN x.o : JsonEq(x.o[k], y.o[k])
         [] OTHER -> x = y
\* the values a const or enum schema allows
Allowed(schema) ==
    IF Has(schema, "const") THEN {schema.o["const"]}
    ELSE {schema.o["enum"].a[n] : n \in 1..Len(schema.o["enum"].a)}

\* C13: const: v accepts x exactly when x is structurally JSON-equal to v, and
\* enum: [v1..vn] exactly when x is structurally JSON-equal to some vi; a
\* boolean equals no number ({const: 1} rejects true, {const: false} rejects 0,
\* {enum: [[1]]} rejects [true]).
C13_ConstEnumByStructuralEquality ==
    arg_schema \in ConstEnumSchemas /\ pc = "compiled" /\ verdict # "" =>
        verdict = (IF \E v \in Allowed(arg_schema) : JsonEq(called_on, v)
                   THEN "true" ELSE "false")

\* C14: {uniqueItems: true} accepts an array exactly when no two elements at
\* distinct positions are structurally JSON-equal, with the same JSON type at
\* every depth: [1, true] and [[1], [true]] are accepted, [1, 1.0] is rejected.
C14_UniqueItemsByStructuralEquality ==
    arg_schema = O1("uniqueItems", JBool(TRUE)) /\ pc = "compiled"
    /\ verdict # "" /\ called_on.t = "arr" =>
        verdict = (IF \E i, j \in 1..Len(called_on.a) :
                         i < j /\ JsonEq(called_on.a[i], called_on.a[j])
                   THEN "false" ELSE "true")

\* instance x satisfies the dependency d of one entry: the names of an array d
\* are all present in x, a schema d accepts x
Satisfies(x, d) ==
    IF d.t = "arr" THEN \A n \in 1..Len(d.a) : Has(x, d.a[n].s)
    ELSE Validation___call__(compile(d, <<>>, <<>>, FALSE), x) = "true"

\* C15: under a dependencies map, an object is accepted exactly when every
\* entry (k, d) whose key k the object has is satisfied; each entry is enforced
\* with its own key and its own dependency ({dependencies: {a: ["b"], c: ["d"]}}
\* rejects {a: 1}).
C15_EveryDependencyEntryIsEnforced ==
    arg_schema \in DependencySchemas /\ pc = "compiled"
    /\ verdict # "" /\ called_on.t = "obj" =>
        verdict = (IF \A k \in DOMAIN arg_schema.o["dependencies"].o :
                         Has(called_on, k) =>
                             Satisfies(called_on, arg_schema.o["dependencies"].o[k])
                   THEN "true" ELSE "false")

C17_DescentTargetIsMetaValidated ==
    arg_schema \in InvalidDescentSchemas /\ arg_check_schema /\ Ended =>
        pc = "failed" /\ raised = "InvalidSchemaError"

\* the values that following token tok from value v leads to: v[tok] when v is
\* an object with the key tok, the element at index tok when v is an array and
\* tok a string of decimal digits below its length, none otherwise
OnlyDigits(tok) ==
    tok # "" /\ \A n \in 1..Len(tok) :
        SubSeq(tok, n, n) \in {"0", "1", "2", "3", "4", "5", "6", "7", "8", "9"}
Followed(v, tok) ==
    IF v.t = "obj" /\ tok \in DOMAIN v.o THEN {v.o[tok]}
    ELSE IF v.t = "arr" /\ OnlyDigits(tok) /\ int(Chars(tok)) < Len(v.a)
    THEN {v.a[int(Chars(tok)) + 1]}
    ELSE {}
\* the values that walking the tokens toks from v reaches: one, or none
RECURSIVE Walked(_, _)
Walked(v, toks) ==
    IF toks = <<>> THEN {v}
    ELSE UNION {Walked(w, Tail(toks)) : w \in Followed(v, toks[1])}

\* C18: evaluate_tokens(doc, tokens) follows the tokens from left to right (on
\* an object a token must be a key, on an array all digits and below the
\* length, on any other value the walk fails) and returns (true, the value
\* reached) when every token could be followed and (false, _) otherwise; with
\* no tokens it returns (true, doc).
C18_WalkFollowsEveryToken ==
    applied = "evaluate_tokens" =>
        /\ returned[3] = ""
        /\ returned[1] <=> Walked(argument.json_doc, argument.json_pointer_tokens) # {}
        /\ returned[1] =>
              returned[2] \in Walked(argument.json_doc, argument.json_pointer_tokens)
        /\ argument.json_pointer_tokens = <<>> => returned[1] /\ returned[2] = argument.json_doc

\* a token read once from left to right, "~1" as "/" and "~0" as "~"
RECURSIVE Decoded(_)
Decoded(cs) ==
    IF cs = <<>> THEN <<>>
    ELSE IF Len(cs) >= 2 /\ cs[1] = "~" /\ cs[2] = "1" THEN <<"/">> \o Decoded(SubSeq(cs, 3, Len(cs)))
    ELSE IF Len(cs) >= 2 /\ cs[1] = "~" /\ cs[2] = "0" THEN <<"~">> \o Decoded(SubSeq(cs, 3, Len(cs)))
    ELSE <<cs[1]>> \o Decoded(Tail(cs))
\* the pieces between the "/"s of a pointer without percent-escapes, after its
\* leading "#" and "/"
RawTokens(q) == Split(StripLeading(StripLeading(Chars(q), "#"), "/"), "/")

\* C19: parse_json_pointer unescapes each token "~1" to "/" first and then
\* "~0" to "~", so that "~01" becomes "~1" (the token "#/~01" parses to) and
\* "m~0n" becomes "m~n"; the empty string and "#" parse to no tokens.
C19_TokensAreUnescapedSlashFirst ==
    applied = "parse_json_pointer" =>
        /\ argument.json_pointer \in {"", "#"} => returned = <<>>
        /\ argument.json_pointer = "#/~01" => returned = <<Chars("~1")>>
        /\ argument.json_pointer = "/m~0n" => returned = <<Chars("m~n")>>
        /\ argument.json_pointer \notin {"", "#", "#/a%25b", "/%7E1"} =>
              returned = [n \in 1..Len(RawTokens(argument.json_pointer)) |->
                            Decoded(RawTokens(argument.json_pointer)[n])]
\* "#/~01" has been parsed
C19_ParsedTildeZeroOne ==
    /\ applied = "parse_json_pointer" /\ argument.json_pointer = "#/~01"
    /\ returned = <<<<"~", "1">>>>

\* C20: a boolean is neither an integer nor a number; is_integer holds of the
\* ints that are not booleans and of the finite floats without a fractional
\* part (not of an infinity); is_number holds of the ints and floats that are
\* not booleans, the infinities included; is_boolean does not hold of 1 or 0;
\* is_integer implies is_number and is_boolean excludes is_number.
C20_TypePredicates ==
    applied = "types" =>
        /\ argument.x.t = "bool" =>
              ~returned["integer"] /\ ~returned["number"] /\ returned["boolean"]
        /\ returned["integer"] <=>
              \/ argument.x.t = "int"
              \/ argument.x.t = "float" /\ argument.x.f = "finite" /\ argument.x.h % 2 = 0
        /\ returned["number"] <=> argument.x.t \in {"int", "float"}
        /\ argument.x.t = "float" /\ argument.x.f \in {"inf", "-inf"} =>
              ~returned["integer"] /\ returned["number"]
        /\ argument.x \in {JInt(1), JInt(0)} => ~returned["boolean"]
        /\ returned["integer"] => returned["number"]
        /\ returned["boolean"] => ~returned["number"]
\* the predicates have been applied to +infinity
C20_AppliedToInfinity ==
    /\ applied = "types" /\ argument.x = JNonFinite("inf")
    /\ returned["number"] /\ ~returned["integer"]

\* C21: compile terminates, returning a validator or raising, whatever cycles
\* the "$ref"s form (a reference to "#", definitions that refer to each other,
\* remote documents that refer to each other): a compilation that has started
\* ends.
C21_CompileTerminates == (pc = "compiling") ~> Ended
\* the compilation of the two definitions that are each other has ended, the
\* second "$ref" to "#/definitions/a" having found the handle of the first
C21_MutualDefinitionsCompiled ==
    /\ arg_schema \in CyclicSchemas /\ pc = "compiled"
    /\ Events("hit", "#/definitions/a") # {}

\* evaluate is about to follow the "$ref" of its schema
AtRef ==
    /\ pc = "compiling"
    /\ now.op = "evaluate"
    /\ now.ref_list = <<>>
    /\ now.schema.t = "obj"
    /\ Has(now.schema, "$ref")
    /\ now.schema.o["$ref"].t = "str"
    /\ ~(Truthy(Get(now.schema, "$id", JNull)) /\ now.schema.o["$id"].t # "str")
\* ref_uri of that evaluate, and the document ref_uri selects there
RefUri == urljoin(current_uri(now.schema, now.base_uri), Chars(now.schema.o["$ref"].s))
SelectedDocument ==
    IF split_uri(RefUri)[1] # <<>> THEN schema_by_uri[Join(split_uri(RefUri)[1])]
    ELSE now.sf.root_schema
\* the document the Validation memoized under key u is compiled from: the one
\* its init was given, which is still running when the Validation is unset
MemoDocument(u) ==
    IF validator_by_uri[u].callback # Unset THEN validator_by_uri[u].schema
    ELSE LET waiting == {i \in 1..Len(stack) :
                            stack[i].f = "resolve" /\ stack[i].key = u}
         IN stack[CHOOSE i \in waiting : TRUE].ref_schema
\* evaluate is about to find ref_uri in global_validation_map
AtMemoHit ==
    /\ AtRef
    /\ Join(RefUri) \in DOMAIN validator_by_uri

\* C22: within one compile call, a memo hit in validator_by_uri for key u
\* returns a validator compiled from the document that resolving u at the
\* point of the hit would select; a fragment-only reference made from a remote
\* document without "$id" and the same reference made from the root document
\* do not share a memo entry when the two documents differ.
C22_MemoHitSelectsSameDocument ==
    AtMemoHit => MemoDocument(Join(RefUri)) = SelectedDocument
\* the registry compile passes to validation.init: keyword_map or the Draft-07 one
ActiveRegistry ==
    IF DOMAIN arg_keyword_map = {} THEN draft7_keyword_map ELSE arg_keyword_map

\* C23: the keyword registry passed to compile as keyword_map is the registry
\* used to compile every sub-schema reached in that call, the targets of
\* "$ref" included: every init, evaluate and keyword function of the call runs
\* with the caller's registry.
C23_CallerRegistryCompilesEverySubschema ==
    pc = "compiling" =>
        /\ now.op = "init" => now.keyword_map = ActiveRegistry
        /\ now.op \in {"evaluate", "keyword"} => now.sf.keyword_map = ActiveRegistry
\* C24: the verdict of uniqueItems depends on the keyword's boolean value:
\* {uniqueItems: false} accepts every array, those with duplicate elements
\* such as [1, 1] included.
C24_UniqueItemsFalseAcceptsEveryArray ==
    arg_schema = O1("uniqueItems", JBool(FALSE)) /\ pc = "compiled"
    /\ verdict # "" /\ called_on.t = "arr" => verdict = "true"
====
